---- MODULE Spec2Model ----
(***************************************************************************)
(* A model of the declarative request router "route": the path trie, the   *)
(* registration of routes (field options compiled into field modifiers),   *)
(* and the execution of one request (dispatch, field binding, handler,     *)
(* response encoding, deferred cleanups).                                  *)
(*                                                                         *)
(* Strings that the code splits or decodes are sequences of tokens: the    *)
(* token "/" is the path separator, "%2F" is the escape of a slash, "%zz"  *)
(* is a malformed escape, and every other token is a chunk of characters   *)
(* holding neither a slash nor a percent sign.  An error value is a        *)
(* sequence of strings (the wrap chain, outermost first); the empty        *)
(* sequence is the nil error.                                              *)
(***************************************************************************)
EXTENDS Integers, Sequences, FiniteSets, TLC

VARIABLES
    router,     \* the router struct built by New
    pc,         \* where the program is: New's option loop, or a request's step
    nerr,       \* the error New returned (Nil while none)
    req,        \* the request being served: method, URL, decoded path, route
    bind,       \* handleRoute / combinedFieldModifier locals of that request
    resp,       \* what was written to the http.ResponseWriter
    log,        \* the calls made for that request, in order
    env,        \* what the request's collaborators do when they are called
    prev,       \* the summary of the request this one repeats (C6)
    sched,      \* the goroutine that is running, the one that is not, and the
                \* cleanup calls of both in the order they were made
    getter      \* a call of getter.IntoStruct: its arguments, where it is, and
                \* what it has done

vars == <<router, pc, nerr, req, bind, resp, log, env, prev, sched, getter>>

----------------------------------------------------------------------------
(* Bounds of the model *)

MaxRoutes == 2      \* route options (Get, Post, Put, Delete) given to New
MaxSegs == 2        \* path segments of a request
MaxMiddleware == 2  \* middleware given to the Middleware options of a router
MaxRemainder == 2   \* nodes marked as allowing a remainder
MaxDepth == 3       \* segments of a path looked up in a trie

----------------------------------------------------------------------------
(* Values *)

Nil == <<>>
NoHandler == 0
EmptyMap == [x \in {} |-> x]

\* A map assignment that keeps the value a key already has
PutNew(m, k, v) == m @@ (k :> v)

\* m[k] = v
Put2(m, k, v) == (k :> v) @@ m

Last(s) == s[Len(s)]
Front(s) == SubSeq(s, 1, Len(s) - 1)

RECURSIVE SeqsUpTo(_, _)
SeqsUpTo(S, n) ==
    IF n = 0 THEN {<<>>}
    ELSE LET shorter == SeqsUpTo(S, n - 1)
         IN shorter \cup {Append(s, e) : s \in shorter, e \in S}

----------------------------------------------------------------------------
(* The trie: a node is named by its root and the steps that lead to it *)

Roots == {"get", "post", "put", "delete"}

StaticStep(key) == [kind |-> "s", key |-> key]
DynStep == [kind |-> "d", key |-> <<>>]

RootNode(root) == [root |-> root, steps |-> <<>>]
StaticChild(n, key) == [root |-> n.root, steps |-> Append(n.steps, StaticStep(key))]
DynChild(n) == [root |-> n.root, steps |-> Append(n.steps, DynStep)]

\* node{}: the zero node router.Node returns for an unknown method
ZeroNode == RootNode("none")

HandlerAt(r, n) == IF n \in DOMAIN r.handler THEN r.handler[n] ELSE NoHandler

NotFound == [handler |-> NoHandler, ok |-> FALSE]

\* A lookup that tries the dynamic child before the static one
RECURSIVE HandlerDynFirst(_, _, _)
HandlerDynFirst(r, n, path) ==
    IF Len(path) = 0
    THEN [handler |-> HandlerAt(r, n), ok |-> HandlerAt(r, n) # NoHandler]
    ELSE LET child == StaticChild(n, Head(path))
             dynamic == IF DynChild(n) \in r.nodes
                        THEN HandlerDynFirst(r, DynChild(n), Tail(path))
                        ELSE NotFound
         IN  IF dynamic.ok THEN dynamic
             ELSE IF child \in r.nodes
                  THEN HandlerDynFirst(r, child, Tail(path))
             ELSE NotFound

\* A lookup that does not fall back to the dynamic child when the static
\* child exists
RECURSIVE HandlerNoFallback(_, _, _)
HandlerNoFallback(r, n, path) ==
    IF Len(path) = 0
    THEN [handler |-> HandlerAt(r, n), ok |-> HandlerAt(r, n) # NoHandler]
    ELSE IF StaticChild(n, Head(path)) \in r.nodes
         THEN HandlerNoFallback(r, StaticChild(n, Head(path)), Tail(path))
         ELSE IF DynChild(n) \in r.nodes
              THEN HandlerNoFallback(r, DynChild(n), Tail(path))
              ELSE NotFound

\* node.Handler: the lookup of a segment list below node n
RECURSIVE Handler(_, _, _)
Handler(r, n, path) ==
    IF Len(path) = 0
    THEN [handler |-> HandlerAt(r, n), ok |-> HandlerAt(r, n) # NoHandler]
    ELSE LET first == Head(path)
             child == StaticChild(n, first)
             static == IF child \in r.nodes
                       THEN Handler(r, child, Tail(path))
                       ELSE NotFound
         IN  IF static.ok THEN static
             ELSE IF DynChild(n) \in r.nodes
                  THEN Handler(r, DynChild(n), Tail(path))
             ELSE IF n \in r.remainder
                  THEN [handler |-> HandlerAt(r, n), ok |-> TRUE]
             ELSE NotFound

\* A lookup that evaluates the dynamic child whether the static child's
\* subtree matched or not
RECURSIVE VisitsBoth(_, _, _)
VisitsBoth(r, n, path) ==
    IF Len(path) = 0 THEN <<>>
    ELSE LET child == StaticChild(n, Head(path))
             static == IF child \in r.nodes
                       THEN <<[node |-> n, branch |-> "s"]>>
                            \o VisitsBoth(r, child, Tail(path))
                       ELSE <<>>
         IN  IF DynChild(n) \in r.nodes
             THEN static \o <<[node |-> n, branch |-> "d"]>>
                         \o VisitsBoth(r, DynChild(n), Tail(path))
             ELSE static

\* node.Handler: the recursive calls the lookup of a segment list below node
\* n makes, in order, each named by the node that makes it and the branch
\* (static or dynamic child) it goes into
RECURSIVE Visits(_, _, _)
Visits(r, n, path) ==
    IF Len(path) = 0 THEN <<>>
    ELSE LET child == StaticChild(n, Head(path))
             static == IF child \in r.nodes
                       THEN <<[node |-> n, branch |-> "s"]>>
                            \o Visits(r, child, Tail(path))
                       ELSE <<>>
         IN  IF child \in r.nodes /\ Handler(r, child, Tail(path)).ok
             THEN static
             ELSE IF DynChild(n) \in r.nodes
                  THEN static \o <<[node |-> n, branch |-> "d"]>>
                              \o Visits(r, DynChild(n), Tail(path))
             ELSE static

\* markRemainder: the node accepts any deeper suffix
markRemainder(r, n) == [r EXCEPT !.remainder = @ \cup {n}]

\* A dispatch that keeps one root for every method it knows
NodeOneRoot(method) ==
    IF method \in {"HEAD", "GET", "POST", "PUT", "DELETE"}
    THEN RootNode("get")
    ELSE ZeroNode

\* router.Node: the root a request method is looked up in
Node(method) ==
    CASE method = "HEAD" -> RootNode("get")
      [] method = "GET" -> RootNode("get")
      [] method = "POST" -> RootNode("post")
      [] method = "PUT" -> RootNode("put")
      [] method = "DELETE" -> RootNode("delete")
      [] OTHER -> ZeroNode

----------------------------------------------------------------------------
(* Registration: field options compiled against the route's trie cursor.   *)
(* A cursor c is [nodes, node]: the trie's nodes and the route's position. *)

\* route.addFixedToPath
addFixedToPath(c, name) ==
    LET next == StaticChild(c.node, name)
    IN  [nodes |-> c.nodes \cup {next}, node |-> next]

\* route.addVarToPath
addVarToPath(c) ==
    LET next == DynChild(c.node)
    IN  [nodes |-> c.nodes \cup {next}, node |-> next]

\* strings.ToLower on the field names of the model, as the tests pass it to
\* PathByNameOfFixedTyped
convert(name) ==
    CASE name = "Foo" -> <<"foo">>
      [] name = "Bar" -> <<"bar">>
      [] name = "Id" -> <<"id">>
      [] name = "V" -> <<"v">>
      [] OTHER -> <<name>>

\* A FieldOption primitive run at registration: PathByName, Path(""), PathID,
\* RequestValue, ClosableRequestValue, and an option of the caller's that
\* returns an error (Failing).  The modifier it returns is named
\* after it.
FieldOption(kind, c, name) ==
    CASE kind = "PathByName" ->
            [c |-> addFixedToPath(c, convert(name)), mod |-> kind, err |-> Nil]
      [] kind = "Path" ->
            [c |-> addFixedToPath(c, <<>>), mod |-> kind, err |-> Nil]
      [] kind = "PathID" ->
            [c |-> addVarToPath(c), mod |-> kind, err |-> Nil]
      [] kind = "Failing" ->
            [c |-> c, mod |-> kind, err |-> <<"option error", name>>]
      [] OTHER ->
            [c |-> c, mod |-> kind, err |-> Nil]

\* combinedFieldModifier, registration part: the sub-options compiled in order
RECURSIVE combinedFieldModifier(_, _, _)
combinedFieldModifier(opts, c, name) ==
    IF opts = <<>> THEN [c |-> c, mods |-> <<>>, err |-> Nil]
    ELSE LET first == FieldOption(Head(opts), c, name)
         IN  IF first.err # Nil
             THEN [c |-> first.c, mods |-> <<>>, err |-> first.err]
             ELSE LET rest == combinedFieldModifier(Tail(opts), first.c, name)
                  IN  [c |-> rest.c,
                       mods |-> <<first.mod>> \o rest.mods,
                       err |-> rest.err]

\* A check that takes every field for exported
IsExportedAny(field) == TRUE

\* reflect.StructField.IsExported
IsExported(field) == field.pkgPath = ""

\* A resolution by type first, else by name
routeOptionTypeFirst(r, field) ==
    IF field.type \in DOMAIN r.typeRouteOptions
    THEN [ok |-> TRUE, option |-> r.typeRouteOptions[field.type]]
    ELSE IF field.name \in DOMAIN r.nameRouteOptions
    THEN [ok |-> TRUE, option |-> r.nameRouteOptions[field.name]]
    ELSE [ok |-> FALSE, option |-> <<>>]

\* router.routeOption: the field option of a field, by name, else by type
routeOption(r, field) ==
    IF field.name \in DOMAIN r.nameRouteOptions
    THEN [ok |-> TRUE, option |-> r.nameRouteOptions[field.name]]
    ELSE IF field.type \in DOMAIN r.typeRouteOptions
    THEN [ok |-> TRUE, option |-> r.typeRouteOptions[field.type]]
    ELSE [ok |-> FALSE, option |-> <<>>]

\* A loop that looks for a field that is not exported before it compiles the
\* option of any field
RECURSIVE routeFieldsChecksFirst(_, _, _, _)
routeFieldsChecksFirst(r, c, input, i) ==
    LET private == {k \in DOMAIN input : ~IsExported(input[k])}
    IN  IF i > Len(input) THEN [c |-> c, fields |-> <<>>, err |-> Nil, ran |-> 0]
        ELSE IF private # {}
        THEN [c |-> c, fields |-> <<>>, ran |-> 0,
              err |-> <<"field is not exported",
                        input[CHOOSE k \in private : \A l \in private : k <= l].name>>]
        ELSE LET field == input[i]
                 found == routeOption(r, field)
                 option == combinedFieldModifier(found.option, c, field.name)
                 rest == routeFieldsChecksFirst(r, option.c, input, i + 1)
             IN  IF ~found.ok
                 THEN [c |-> c, fields |-> <<>>, ran |-> 0,
                       err |-> <<"no option for field", field.name, field.type>>]
                 ELSE IF option.err # Nil
                 THEN [c |-> option.c, fields |-> <<>>, err |-> option.err, ran |-> 1]
                 ELSE [c |-> rest.c,
                       fields |-> <<option.mods>> \o rest.fields,
                       err |-> rest.err, ran |-> 1 + rest.ran]

\* routeHandler's loop over the input type's fields, from field i on: the
\* cursor it leaves, the compiled modifiers, its error, and the number of
\* fields whose option it ran
RECURSIVE routeFields(_, _, _, _)
routeFields(r, c, input, i) ==
    IF i > Len(input) THEN [c |-> c, fields |-> <<>>, err |-> Nil, ran |-> 0]
    ELSE LET field == input[i]
             found == routeOption(r, field)
             option == combinedFieldModifier(found.option, c, field.name)
             rest == routeFields(r, option.c, input, i + 1)
         IN  IF ~IsExported(field)
             THEN [c |-> c, fields |-> <<>>, ran |-> 0,
                   err |-> <<"field is not exported", field.name>>]
             ELSE IF ~found.ok
             THEN [c |-> c, fields |-> <<>>, ran |-> 0,
                   err |-> <<"no option for field", field.name, field.type>>]
             ELSE IF option.err # Nil
             THEN [c |-> option.c, fields |-> <<>>, err |-> option.err, ran |-> 1]
             ELSE [c |-> rest.c,
                   fields |-> <<option.mods>> \o rest.fields,
                   err |-> rest.err, ran |-> 1 + rest.ran]

\* routeHandler: compile the fields, then bind the handler at the cursor.
\* A handler is named by the index of its route in router.routes.
routeHandler(r, root, input) ==
    LET res == routeFields(r, [nodes |-> r.nodes, node |-> RootNode(root)], input, 1)
        id == Len(r.routes) + 1
        route == [root |-> root, node |-> res.c.node, input |-> input,
                  fields |-> res.fields, middleware |-> r.middleware]
    IN  IF res.err # Nil
        THEN [router |-> [r EXCEPT !.nodes = res.c.nodes], err |-> res.err]
        ELSE [router |-> [r EXCEPT !.nodes = res.c.nodes,
                                   !.handler = Put2(@, res.c.node, id),
                                   !.routes = Append(@, route)],
              err |-> Nil]

\* ByName / ByType: register a field option under a field name / a type
addNameRouteOption(r, name, opts) ==
    [r EXCEPT !.nameRouteOptions = Put2(@, name, opts)]

addTypeRouteOption(r, type, opts) ==
    [r EXCEPT !.typeRouteOptions = Put2(@, type, opts)]

\* An Option value: ByType, ByName, ResponseEncoder, HandleError, Middleware,
\* Get, Post, Put, Delete
Opt(op, key, opts, input) == [op |-> op, key |-> key, opts |-> opts, input |-> input]

\* The root a route option registers under
RootOf(op) ==
    CASE op = "Get" -> "get"
      [] op = "Post" -> "post"
      [] op = "Put" -> "put"
      [] op = "Delete" -> "delete"

\* A Middleware option that wraps the routes registered before it as well
OptionRewrapping(r, o) ==
    CASE o.op = "ByType" ->
            [router |-> addTypeRouteOption(r, o.key, o.opts), err |-> Nil]
      [] o.op = "ByName" ->
            [router |-> addNameRouteOption(r, o.key, o.opts), err |-> Nil]
      [] o.op = "ResponseEncoder" ->
            [router |-> [r EXCEPT !.responseEncoder = TRUE], err |-> Nil]
      [] o.op = "HandleError" ->
            [router |-> [r EXCEPT !.handleErr = TRUE], err |-> Nil]
      [] o.op = "Middleware" ->
            [router |->
                [r EXCEPT !.middleware = @ \o o.opts,
                          !.routes = [k \in DOMAIN @ |->
                                        [@[k] EXCEPT !.middleware = r.middleware \o o.opts]]],
             err |-> Nil]
      [] OTHER -> routeHandler(r, RootOf(o.op), o.input)

\* The Option applied to the router: the router it leaves and its error
Option(r, o) ==
    CASE o.op = "ByType" ->
            [router |-> addTypeRouteOption(r, o.key, o.opts), err |-> Nil]
      [] o.op = "ByName" ->
            [router |-> addNameRouteOption(r, o.key, o.opts), err |-> Nil]
      [] o.op = "ResponseEncoder" ->
            [router |-> [r EXCEPT !.responseEncoder = TRUE], err |-> Nil]
      [] o.op = "HandleError" ->
            [router |-> [r EXCEPT !.handleErr = TRUE], err |-> Nil]
      [] o.op = "Middleware" ->
            [router |-> [r EXCEPT !.middleware = @ \o o.opts], err |-> Nil]
      [] OTHER -> routeHandler(r, RootOf(o.op), o.input)

\* A loop that goes on after an option failed and returns the first error
RECURSIVE JoinAll(_, _)
JoinAll(r, opts) ==
    IF opts = <<>> THEN [router |-> r, err |-> Nil]
    ELSE LET first == Option(r, Head(opts))
             rest == JoinAll(first.router, Tail(opts))
         IN  [router |-> rest.router,
              err |-> IF first.err # Nil THEN first.err ELSE rest.err]

\* Join, and New's loop: the options in order, up to the first error
RECURSIVE Join(_, _)
Join(r, opts) ==
    IF opts = <<>> THEN [router |-> r, err |-> Nil]
    ELSE LET first == Option(r, Head(opts))
         IN  IF first.err # Nil THEN first ELSE Join(first.router, Tail(opts))

----------------------------------------------------------------------------
(* Paths *)

HasSlash(s) == \E k \in 1..Len(s) : s[k] = "/"
FirstSlash(s) == CHOOSE k \in 1..Len(s) : s[k] = "/" /\ \A l \in 1..(k - 1) : s[l] # "/"

\* strings.Split(s, "/")
RECURSIVE Split(_)
Split(s) ==
    IF ~HasSlash(s) THEN <<s>>
    ELSE <<SubSeq(s, 1, FirstSlash(s) - 1)>>
         \o Split(SubSeq(s, FirstSlash(s) + 1, Len(s)))

\* The character an escape token stands for: "%2F" is a slash and "%252F" is
\* the three characters %2F (its "%25" is a percent sign)
unescape(t) ==
    CASE t = "%2F" -> "/"
      [] t = "%252F" -> "%2F"
      [] OTHER -> t

\* An unescape that lets a malformed escape through
PathUnescapeLax(p) ==
    [s |-> [k \in 1..Len(p) |-> unescape(p[k])], ok |-> TRUE]

\* url.PathUnescape of one segment
PathUnescape(p) ==
    IF \E k \in 1..Len(p) : p[k] = "%zz"
    THEN [s |-> <<>>, ok |-> FALSE]
    ELSE [s |-> [k \in 1..Len(p) |-> unescape(p[k])], ok |-> TRUE]

\* A split of the decoded path, whatever the raw path is
splitPathDecoded(link) ==
    [path |-> Tail(Split(link.Path)), err |-> Nil]

\* A split that cleans the path first, as path.Clean does: the empty segments
\* are gone
splitPathClean(link) ==
    [path |-> SelectSeq(Tail(Split(link.Path)), LAMBDA seg : seg # <<>>), err |-> Nil]

\* splitPath
splitPath(link) ==
    IF link.RawPath = <<>>
    THEN [path |-> Tail(Split(link.Path)), err |-> Nil]
    ELSE LET path == Tail(Split(link.RawPath))
         IN  IF \E i \in 1..Len(path) : ~PathUnescape(path[i]).ok
             THEN [path |-> <<>>, err |-> <<"url.PathUnescape">>]
             ELSE [path |-> [i \in 1..Len(path) |-> PathUnescape(path[i]).s],
                   err |-> Nil]

\* The request target made of raw segments: a slash before each of them
RECURSIVE TargetOf(_)
TargetOf(segs) ==
    IF segs = <<>> THEN <<>> ELSE <<"/">> \o Head(segs) \o TargetOf(Tail(segs))

IsEscape(t) == t \in {"%2F", "%zz"}

\* The url.URL of a request target, as splitPath reads it: Path is the
\* decoded target, and RawPath is set only when the target is not the default
\* encoding of Path, that is when it holds an escape other than "%25.."
URLOf(target) ==
    IF \E k \in 1..Len(target) : IsEscape(target[k])
    THEN [Path |-> IF PathUnescape(target).ok THEN PathUnescape(target).s ELSE target,
          RawPath |-> target]
    ELSE [Path |-> PathUnescape(target).s, RawPath |-> <<>>]

\* A pop that leaves the head of pathTail where it is
popPathPeek(pathTail) == [s |-> Head(pathTail), pathTail |-> pathTail]

\* request.popPath: the head of pathTail, which it drops
popPath(pathTail) == [s |-> Head(pathTail), pathTail |-> Tail(pathTail)]

----------------------------------------------------------------------------
(* The options, input types and requests of the model *)

FFoo == [name |-> "Foo", type |-> "Fixed", pkgPath |-> ""]
FBar == [name |-> "Bar", type |-> "Fixed", pkgPath |-> ""]
FId == [name |-> "Id", type |-> "string", pkgPath |-> ""]
FBad == [name |-> "B", type |-> "Bad", pkgPath |-> ""]
FV == [name |-> "V", type |-> "*string", pkgPath |-> ""]
FSlash == [name |-> "S", type |-> "Slash", pkgPath |-> ""]
FPrivate == [name |-> "private", type |-> "string", pkgPath |-> "route"]

\* ByType(...) options: PathByNameOfFixedTyped(strings.ToLower),
\* ByType(StringPathIDs()), and two ClosableRequestValue under one type
TypeOptions ==
    { [key |-> "Fixed", opts |-> <<"PathByName">>],
      [key |-> "string", opts |-> <<"PathID">>],
      [key |-> "*string", opts |-> <<"Closable", "Closable">>],
      [key |-> "Bad", opts |-> <<"PathID", "Failing">>] }

\* ByType(Path("")): a fixed segment that is the empty string
TSlash == [key |-> "Slash", opts |-> <<"Path">>]

\* The options and routes of the tries that have a child for the empty
\* segment: a route without fields is bound at the root
SplitOptions == {t \in TypeOptions : t.key = "string"} \cup {TSlash}
SplitInputs == { <<>>, <<FSlash>>, <<FId>> }

\* ByName(...) options
NameOptions ==
    { [key |-> "Foo", opts |-> <<"Closable">>] }

GetInputs ==
    { <<FFoo>>, <<FId>>, <<FFoo, FId>>, <<FId, FFoo>>, <<FV>>, <<FV, FFoo>>,
      <<FPrivate>>, <<FFoo, FPrivate>>, <<FBad>> }
PostInputs == { <<FFoo>>, <<FId>> }
TrieInputs ==
    { <<FFoo>>, <<FId>>, <<FFoo, FId>>, <<FId, FBar>>, <<FFoo, FBar>>,
      <<FFoo, FBar, FId>> }
PutInputs == { <<FFoo>> }
DeleteInputs == { <<FFoo>> }

\* Middleware(...) options
Middlewares == { <<"m1">>, <<"m2">>, <<"m1", "m2">> }

\* The options of the option lists below
Enc == Opt("ResponseEncoder", "", <<>>, <<>>)
Herr == Opt("HandleError", "", <<>>, <<>>)
Mw(middleware) == Opt("Middleware", "", middleware, <<>>)
TFixed == Opt("ByType", "Fixed", <<"PathByName">>, <<>>)
TString == Opt("ByType", "string", <<"PathID">>, <<>>)
TPtr == Opt("ByType", "*string", <<"Closable", "Closable">>, <<>>)
NFoo == Opt("ByName", "Foo", <<"Closable">>, <<>>)
G(input) == Opt("Get", "", <<>>, input)

\* Option lists given to New as a whole
Configs ==
    { <<Enc>>,
      <<Enc, TFixed, TString, G(<<FFoo, FId>>), G(<<FId, FFoo>>)>>,
      <<Enc, TFixed, TString, G(<<FId>>), G(<<FFoo>>)>>,
      <<Enc, TPtr, NFoo, G(<<FV, FFoo>>)>>,
      <<Enc, TPtr, TFixed, G(<<FV, FFoo>>), G(<<FV>>)>>,
      <<TFixed, G(<<FFoo>>), Opt("Post", "", <<>>, <<FFoo>>)>>,
      <<Enc, TFixed, G(<<FFoo>>), Opt("Post", "", <<>>, <<FFoo>>),
        Opt("Put", "", <<>>, <<FFoo>>), Opt("Delete", "", <<>>, <<FFoo>>)>>,
      <<Enc, TString, G(<<FPrivate>>)>>,
      <<Enc, TFixed, G(<<FFoo, FId>>)>>,
      <<Enc, G(<<FFoo>>), TFixed, G(<<FFoo>>)>>,
      <<Enc, Herr, NFoo, G(<<FFoo>>)>>,
      <<Enc, TFixed, Mw(<<"m1">>), G(<<FFoo>>), Mw(<<"m2">>),
        Opt("Post", "", <<>>, <<FFoo>>)>>,
      <<Enc, TString, Mw(<<"m1", "m2">>), G(<<FId>>)>> }

\* The nodes the routes of TrieInputs make
RECURSIVE NodesBelow(_, _)
NodesBelow(n, depth) ==
    IF depth = 0 THEN {n}
    ELSE {n} \cup UNION { NodesBelow(c, depth - 1) :
                            c \in {StaticChild(n, <<"foo">>), StaticChild(n, <<"bar">>),
                                   DynChild(n)} }

TrieNodes == NodesBelow(RootNode("get"), MaxDepth)

Methods == {"GET", "HEAD", "POST", "PUT", "DELETE", "OPTIONS"}
RawSegments ==
    { <<"foo">>, <<"x">>, <<"%zz">>, <<"%2F", "World">>, <<"%252F", "%2F">> }
Targets == { TargetOf(segs) : segs \in SeqsUpTo(RawSegments, MaxSegs) }
RemTargets == { TargetOf(segs) : segs \in SeqsUpTo({<<"foo">>, <<"x">>}, MaxDepth) }
\* Paths of empty and other segments, and two paths with an escape
SplitSegments == { <<>>, <<"foo">> }
SplitTargets ==
    { TargetOf(segs) : segs \in SeqsUpTo(SplitSegments, MaxSegs) }
        \cup { TargetOf(<<seg>>) : seg \in {<<"%2F">>, <<"%zz">>} }
MwTargets == { TargetOf(segs) : segs \in SeqsUpTo({<<"foo">>}, MaxSegs) }

----------------------------------------------------------------------------
(* State of one request *)

NoReq == [method |-> "", url |-> URLOf(<<>>), path |-> <<>>, matched |-> NoHandler]
NoBind ==
    [i |-> 0, j |-> 0, pathTail |-> <<>>, closers |-> <<>>, err |-> Nil,
     defers |-> <<>>, cur |-> <<>>, inner |-> Nil, mErr |-> Nil,
     panicking |-> FALSE, res |-> <<>>]
NoResp == [status |-> 0, body |-> <<>>]
NoPrev == [method |-> "", matched |-> NoHandler, log |-> <<>>]

\* What belongs to the goroutine serving a request: where it is, the request
\* and response it was called with, the locals of handleRoute and of the field
\* modifier it is in with their deferred functions, and the calls it made
Locals(p, r, b, w, l, e) ==
    [pc |-> p, req |-> r, bind |-> b, resp |-> w, log |-> l, env |-> e]

\* Goroutines that share the closers they acquired and the deferred functions
\* that call them
resumedShared(own, running) ==
    [own EXCEPT !.closers = running.closers, !.defers = running.defers,
                !.cur = running.cur]

\* The locals a goroutine resumes with are its own, whatever the goroutine
\* that ran meanwhile did
resumed(own, running) == own

\* The cleanup calls of all goroutines in the order they were made
traced(trace, id, e) ==
    IF e.ev = "close" THEN Append(trace, [id |-> id, f |-> e.f, s |-> e.s])
    ELSE trace

Event(ev, f, s, out, arg) == [ev |-> ev, f |-> f, s |-> s, out |-> out, arg |-> arg]
Key(k, f, s) == [k |-> k, f |-> f, s |-> s]

\* What a collaborator does when called: free the first time, and the same
\* again when the request is repeated
Outcomes(key, all) == IF key \in DOMAIN env THEN {env[key]} ELSE all

Route == router.routes[req.matched]
Fields == Route.fields

RECURSIVE FirstField(_, _)
FirstField(fields, i) ==
    IF i > Len(fields) THEN i
    ELSE IF fields[i] = <<>> THEN FirstField(fields, i + 1)
    ELSE i

\* A field loop after which every request calls the handler
AfterFieldsAny(method) == "handler"

\* handleRoute after the field loop: a HEAD request returns, any other
\* request calls the handler
AfterFields(method) == IF method = "HEAD" THEN "defers" ELSE "handler"

PcAt(fields, i, method) == IF i <= Len(fields) THEN "fields" ELSE AfterFields(method)

ModOutcomes(kind) ==
    CASE kind = "PathByName" -> {"ok"}
      [] kind = "Path" -> {"ok"}
      [] kind = "PathID" -> {"ok"}
      [] kind = "RequestValue" -> {"ok", "err", "panic"}
      [] kind = "Closable" -> {"ok", "closer", "err", "panic"}

Pops(kind) == kind \in {"PathByName", "Path", "PathID"}

ModErr(i, j) == <<"modifier error", ToString(i), ToString(j)>>
CloserErr(c) == <<"closer error", ToString(c[1]), ToString(c[2])>>
PanicErr == <<"panic">>

----------------------------------------------------------------------------
(* Steps of a request, as functions of the locals *)

\* A chain whose first middleware is the outermost
wrappedFirstOutermost(chain) ==
    [k \in 1..Len(chain) |-> Event("middleware", k, 0, "ok", <<chain[k]>>)]

\* routeHandler's loop over router.middleware: each middleware wraps what the
\* ones before it made, so a request enters the last one first.  The entries
\* of a request into the chain, outermost first
wrapped(chain) ==
    [k \in 1..Len(chain) |->
        Event("middleware", Len(chain) + 1 - k, 0, "ok",
              <<chain[Len(chain) + 1 - k]>>)]

\* New's handler up to handler.ServeHTTP, then the route's handler up to
\* handleRoute's field loop
serve(r, method, link) ==
    LET sp == splitPath(link)
        h == Handler(r, Node(method), sp.path)
        fields == r.routes[h.handler].fields
        first == FirstField(fields, 1)
    IN  IF sp.err # Nil
        THEN [req |-> [method |-> method, url |-> link, path |-> <<>>,
                       matched |-> NoHandler],
              bind |-> NoBind, pc |-> "done", log |-> <<>>,
              resp |-> [status |-> 400, body |-> <<sp.err>>]]
        ELSE IF ~h.ok
        THEN [req |-> [method |-> method, url |-> link, path |-> sp.path,
                       matched |-> NoHandler],
              bind |-> NoBind, pc |-> "done", log |-> <<>>,
              resp |-> [status |-> 404, body |-> <<(<<"not found">>)>>]]
        ELSE IF h.handler = NoHandler
        THEN [req |-> [method |-> method, url |-> link, path |-> sp.path,
                       matched |-> NoHandler],
              bind |-> NoBind, pc |-> "done",
              log |-> <<Event("nil handler", 0, 0, "panic", Nil)>>,
              resp |-> NoResp]
        ELSE [req |-> [method |-> method, url |-> link, path |-> sp.path,
                       matched |-> h.handler],
              bind |-> [NoBind EXCEPT !.pathTail = sp.path, !.i = first, !.j = 1],
              pc |-> PcAt(fields, first, method),
              log |-> wrapped(r.routes[h.handler].middleware),
              resp |-> NoResp]

\* What the sub-modifier at (i, j) returns: a modifier that pops the path
\* panics when no segment is left
modResult(kind, pathTail, out) ==
    IF Pops(kind) /\ pathTail = <<>> THEN "panic" ELSE out

\* The segment the sub-modifier at (i, j) is given by popPath, if any
popped(kind, pathTail) ==
    IF Pops(kind) /\ pathTail # <<>> THEN popPath(pathTail).s ELSE Nil

\* combinedFieldModifier's loop body when sub-modifier (i, j) succeeded: on to
\* the field's next sub-modifier; after its last one, the return to
\* handleRoute's field loop, which defers the closer it got
modNext(b, fields, method, tail, closers) ==
    LET next == FirstField(fields, b.i + 1)
    IN  IF b.j < Len(fields[b.i])
        THEN [bind |-> [b EXCEPT !.pathTail = tail, !.closers = closers,
                                 !.j = b.j + 1],
              pc |-> "fields"]
        ELSE [bind |-> [b EXCEPT !.pathTail = tail, !.closers = <<>>,
                                 !.defers = IF closers = <<>> THEN @
                                            ELSE Append(@, closers),
                                 !.i = next, !.j = 1],
              pc |-> PcAt(fields, next, method)]

\* A loop body that goes on to the next sub-modifier whatever the result
modStepContinue(b, fields, method, res) ==
    modNext(b, fields, method,
            IF Pops(fields[b.i][b.j]) /\ b.pathTail # <<>>
            THEN popPath(b.pathTail).pathTail
            ELSE b.pathTail,
            b.closers)

\* combinedFieldModifier's loop body for sub-modifier (i, j), whose result is
\* res: an error or a panic ends the loop
modStep(b, fields, method, res) ==
    LET kind == fields[b.i][b.j]
        tail == IF Pops(kind) /\ b.pathTail # <<>>
                THEN popPath(b.pathTail).pathTail
                ELSE b.pathTail
    IN  CASE res = "panic" ->
                [bind |-> [b EXCEPT !.pathTail = tail, !.err = PanicErr],
                 pc |-> "fieldDefer"]
          [] res = "err" ->
                [bind |-> [b EXCEPT !.pathTail = tail, !.err = ModErr(b.i, b.j)],
                 pc |-> "fieldDefer"]
          [] res = "closer" ->
                modNext(b, fields, method, tail, Append(b.closers, <<b.i, b.j>>))
          [] OTHER ->
                modNext(b, fields, method, tail, b.closers)

\* combinedFieldModifier's deferred function: one closer of the failed field
fieldDefer(b, out) ==
    LET c == Last(b.closers)
    IN  CASE out = "panic" ->
                [bind |-> [b EXCEPT !.closers = <<>>, !.panicking = TRUE],
                 pc |-> "defers"]
          [] out = "err" ->
                [bind |-> [b EXCEPT !.closers = Front(@),
                                    !.err = IF @ = Nil THEN CloserErr(c) ELSE @],
                 pc |-> "fieldDefer"]
          [] OTHER ->
                [bind |-> [b EXCEPT !.closers = Front(@)], pc |-> "fieldDefer"]

\* The failed field modifier returns its error to handleRoute, which returns
fieldReturn(b) ==
    [bind |-> [b EXCEPT !.mErr = <<"applying input option">> \o b.err],
     pc |-> "defers"]

\* A call of the handler after which the encoder is called whatever the
\* handler returned
handlerStepEncodes(b, out) ==
    CASE out = "panic" -> [bind |-> [b EXCEPT !.panicking = TRUE], pc |-> "defers"]
      [] out = "err" ->
            [bind |-> [b EXCEPT !.mErr = <<"handling request", "handler error">>],
             pc |-> "encode"]
      [] OTHER -> [bind |-> [b EXCEPT !.res = <<"result">>], pc |-> "encode"]

\* handleRoute's call of the handler
handlerStep(b, out) ==
    CASE out = "panic" -> [bind |-> [b EXCEPT !.panicking = TRUE], pc |-> "defers"]
      [] out = "err" ->
            [bind |-> [b EXCEPT !.mErr = <<"handling request", "handler error">>],
             pc |-> "defers"]
      [] OTHER -> [bind |-> [b EXCEPT !.res = <<"result">>], pc |-> "encode"]

\* handleRoute's call of the response encoder (a nil func when none is set)
encodeStep(b, out) ==
    CASE out = "unset" -> [bind |-> [b EXCEPT !.panicking = TRUE], pc |-> "defers"]
      [] out = "err" ->
            [bind |-> [b EXCEPT !.mErr = <<"encoding response", "encoder error">>],
             pc |-> "defers"]
      [] OTHER -> [bind |-> b, pc |-> "defers"]

\* A deferred function of handleRoute's field loop starts: it recovers, then
\* calls the field's closer with mErr
deferStep(b) ==
    [bind |-> [b EXCEPT !.defers = Front(@),
                        !.cur = Last(b.defers),
                        !.inner = Nil,
                        !.mErr = IF b.panicking /\ @ = Nil THEN PanicErr ELSE @,
                        !.panicking = FALSE],
     pc |-> "closing"]

\* The field's closer: one closer of the composed closer (a single closer
\* when the field acquired one)
closeStep(b, out) ==
    LET c == Last(b.cur)
    IN  CASE out = "panic" ->
                [bind |-> [b EXCEPT !.cur = <<>>, !.inner = Nil, !.panicking = TRUE],
                 pc |-> "defers"]
          [] out = "err" ->
                [bind |-> [b EXCEPT !.cur = Front(@),
                                    !.inner = IF @ = Nil THEN CloserErr(c) ELSE @],
                 pc |-> "closing"]
          [] OTHER -> [bind |-> [b EXCEPT !.cur = Front(@)], pc |-> "closing"]

\* A return of the field's closer whose error replaces mErr
closeReturnLast(b) ==
    [bind |-> [b EXCEPT !.inner = Nil,
                        !.mErr = IF b.inner # Nil THEN b.inner ELSE @],
     pc |-> "defers"]

\* The field's closer returned: its error becomes mErr when none is set
closeReturn(b) ==
    [bind |-> [b EXCEPT !.inner = Nil,
                        !.mErr = IF b.inner # Nil /\ @ = Nil THEN b.inner ELSE @],
     pc |-> "defers"]

\* handleRoute's first deferred function, run last
recovered(b) ==
    [b EXCEPT !.mErr = IF b.panicking /\ @ = Nil THEN PanicErr ELSE @,
              !.panicking = FALSE]

\* http.Error / a body write: the status is fixed by the first write
write(w, status, text) ==
    [status |-> IF w.status = 0 THEN status ELSE w.status,
     body |-> Append(w.body, text)]

\* An error handler set by HandleError: it answers 503 with a text of its own
handleErr(w, err) == write(w, 503, <<"handled">>)

\* An error report that is skipped once a response has been written
HandleErrUnwritten(r, w, err) ==
    IF w.status # 0 THEN w
    ELSE IF r.handleErr THEN write(w, 503, <<"handled">>) ELSE write(w, 500, err)

\* router.HandleErr
HandleErr(r, w, err) ==
    IF r.handleErr THEN handleErr(w, err) ELSE write(w, 500, err)

----------------------------------------------------------------------------
(* Package getter: the query values of a request set into a struct.  A     *)
(* struct type is a sequence of fields; a field type is a shape (scalar,   *)
(* ptr, slice) over an element kind; a value is a shape with the parsed    *)
(* elements it holds.                                                      *)

MaxFields == 2      \* fields of the struct given to IntoStruct
MaxValues == 2      \* values of one key in the query

\* A reflect.StructField
GField(name, tag, shape, elem, anonymous, pkgPath) ==
    [name |-> name, tag |-> tag, shape |-> shape, elem |-> elem,
     anonymous |-> anonymous, pkgPath |-> pkgPath]

\* A parsed element, and the values of a field
Parsed(elem, n, s) == [elem |-> elem, n |-> n, s |-> s]
GValue(shape, vals) == [shape |-> shape, vals |-> vals]

\* The zero value of a field (nil for a pointer and a slice), and the invalid
\* reflect.Value
ZeroValue == GValue("zero", <<>>)
Invalid == GValue("invalid", <<>>)

\* strcase.ToKebab on the field names of the model
ToKebab(name) ==
    CASE name = "A" -> "a"
      [] name = "Fom" -> "fom"
      [] OTHER -> name

\* strconv.Atoi and strconv.ParseBool on the query values of the model
Atoi(value) ==
    CASE value = "1" -> [n |-> 1, ok |-> TRUE]
      [] value = "2" -> [n |-> 2, ok |-> TRUE]
      [] OTHER -> [n |-> 0, ok |-> FALSE]

ParseBool(value) ==
    CASE value = "1" -> [n |-> 1, ok |-> TRUE]
      [] OTHER -> [n |-> 0, ok |-> FALSE]

\* valueParser: whether the kind has a parser, and the parser it returns
Supported(elem) == elem \in {"string", "int", "bool"}

valueParser(elem, value) ==
    CASE elem = "string" -> [v |-> Parsed(elem, 0, value), err |-> Nil]
      [] elem = "int" ->
            IF Atoi(value).ok
            THEN [v |-> Parsed(elem, Atoi(value).n, ""), err |-> Nil]
            ELSE [v |-> Parsed(elem, 0, ""), err |-> <<"strconv.Atoi", value>>]
      [] elem = "bool" ->
            IF ParseBool(value).ok
            THEN [v |-> Parsed(elem, ParseBool(value).n, ""), err |-> Nil]
            ELSE [v |-> Parsed(elem, 0, ""), err |-> <<"strconv.ParseBool", value>>]

\* The first value of a list the element parser fails on, 0 when none
FirstBad(elem, values) ==
    LET bad == {i \in DOMAIN values : valueParser(elem, values[i]).err # Nil}
    IN  IF bad = {} THEN 0 ELSE CHOOSE i \in bad : \A j \in bad : i <= j

\* The function valuesParser returns for a field type, applied to the values
\* of the field's key
valuesParser(shape, elem, values) ==
    CASE shape = "ptr" ->
            IF Len(values) = 0 THEN [v |-> Invalid, err |-> Nil]
            ELSE IF Len(values) > 1
            THEN [v |-> Invalid, err |-> <<"expected 1 value">>]
            ELSE IF valueParser(elem, values[1]).err # Nil
            THEN [v |-> Invalid, err |-> valueParser(elem, values[1]).err]
            ELSE [v |-> GValue("ptr", <<valueParser(elem, values[1]).v>>),
                  err |-> Nil]
      [] shape = "slice" ->
            IF FirstBad(elem, values) # 0
            THEN [v |-> Invalid,
                  err |-> valueParser(elem, values[FirstBad(elem, values)]).err]
            ELSE [v |-> GValue("slice",
                               [i \in DOMAIN values |-> valueParser(elem, values[i]).v]),
                  err |-> Nil]
      [] OTHER ->
            IF Len(values) = 0 THEN [v |-> Invalid, err |-> <<"no value">>]
            ELSE IF Len(values) > 1
            THEN [v |-> Invalid, err |-> <<"expected 1 value">>]
            ELSE IF valueParser(elem, values[1]).err # Nil
            THEN [v |-> Invalid, err |-> valueParser(elem, values[1]).err]
            ELSE [v |-> GValue("scalar", <<valueParser(elem, values[1]).v>>),
                  err |-> Nil]

\* fieldSetter: the key the field is read from, and its error
fieldSetter(field) ==
    [name |-> IF field.tag # "" THEN field.tag ELSE ToKebab(field.name),
     err |-> IF Supported(field.elem) THEN Nil
             ELSE <<"unsupported type", field.elem>>]

\* r.URL.Query()[name]
QueryValues(query, name) == IF name \in DOMAIN query THEN query[name] ELSE <<>>

\* IntoStructTyped, the loop over the fields of the type from field i on: the
\* setters, none (the empty string) for an embedded field
RECURSIVE IntoStructTypedFrom(_, _)
IntoStructTypedFrom(t, i) ==
    IF i > Len(t) THEN [sets |-> <<>>, err |-> Nil]
    ELSE IF t[i].anonymous
    THEN LET rest == IntoStructTypedFrom(t, i + 1)
         IN  [sets |-> <<"">> \o rest.sets, err |-> rest.err]
    ELSE IF fieldSetter(t[i]).err # Nil
    THEN [sets |-> <<>>, err |-> <<"field", t[i].name>> \o fieldSetter(t[i]).err]
    ELSE LET rest == IntoStructTypedFrom(t, i + 1)
         IN  [sets |-> <<fieldSetter(t[i]).name>> \o rest.sets, err |-> rest.err]

\* The function IntoStructTyped returns, from field i on: value.Field(i).Set
\* panics on a field that is not exported
RECURSIVE parse(_, _, _, _, _)
parse(t, sets, query, value, i) ==
    IF i > Len(sets) THEN [value |-> value, err |-> Nil, panic |-> FALSE]
    ELSE IF sets[i] = "" THEN parse(t, sets, query, value, i + 1)
    ELSE LET res == valuesParser(t[i].shape, t[i].elem, QueryValues(query, sets[i]))
         IN  IF res.err # Nil
             THEN [value |-> value, err |-> <<"field", t[i].name>> \o res.err,
                   panic |-> FALSE]
             ELSE IF res.v = Invalid THEN parse(t, sets, query, value, i + 1)
             ELSE IF t[i].pkgPath # ""
             THEN [value |-> value, err |-> Nil, panic |-> TRUE]
             ELSE parse(t, sets, query, [value EXCEPT ![i] = res.v], i + 1)

\* The fields, struct types and queries IntoStruct is called with: the first
\* field is named A (a when it is not exported) and the second one Fom with
\* the tag getter:"f"
FieldTypes ==
    { [shape |-> sh, elem |-> el, anonymous |-> FALSE, pkgPath |-> ""] :
            sh \in {"scalar", "ptr", "slice"}, el \in {"int", "string"} }
    \cup { [shape |-> "scalar", elem |-> "bool", anonymous |-> FALSE, pkgPath |-> ""],
           [shape |-> "scalar", elem |-> "float64", anonymous |-> FALSE, pkgPath |-> ""],
           [shape |-> "scalar", elem |-> "string", anonymous |-> TRUE, pkgPath |-> ""],
           [shape |-> "scalar", elem |-> "int", anonymous |-> FALSE, pkgPath |-> "getter"],
           [shape |-> "ptr", elem |-> "int", anonymous |-> FALSE, pkgPath |-> "getter"] }

FieldAt(ft, i) ==
    GField(IF i = 1 THEN (IF ft.pkgPath = "" THEN "A" ELSE "a") ELSE "Fom",
           IF i = 1 THEN "" ELSE "f",
           ft.shape, ft.elem, ft.anonymous, IF i = 1 THEN ft.pkgPath ELSE "")

StructTypes ==
    { [i \in DOMAIN fts |-> FieldAt(fts[i], i)] :
            fts \in SeqsUpTo(FieldTypes, MaxFields) \ {<<>>} }

QueryLists == SeqsUpTo({"1", "x"}, MaxValues)

Queries ==
    { [a |-> la, f |-> lf, fom |-> lfom] :
            la \in QueryLists, lf \in QueryLists, lfom \in {<<>>, <<"1">>} }

----------------------------------------------------------------------------
(* New: the options run one after the other on the router *)

\* router{}: the router New starts from
ZeroRouter ==
    [nodes |-> {}, handler |-> EmptyMap, remainder |-> {},
     nameRouteOptions |-> EmptyMap, typeRouteOptions |-> EmptyMap,
     responseEncoder |-> FALSE, handleErr |-> FALSE,
     middleware |-> <<>>, routes |-> <<>>]

\* No call of getter.IntoStruct
NoGetter ==
    [pc |-> "off", t |-> <<>>, query |-> EmptyMap, sets |-> <<>>, value |-> <<>>,
     err |-> Nil, panic |-> FALSE]

Init ==
    /\ getter = NoGetter
    /\ router = ZeroRouter
    /\ pc = "setup"
    /\ nerr = Nil
    /\ req = NoReq
    /\ bind = NoBind
    /\ resp = NoResp
    /\ log = <<>>
    /\ env = EmptyMap
    /\ prev = NoPrev
    /\ sched = [id |-> 1, parked |-> Locals("idle", NoReq, NoBind, NoResp, <<>>, EmptyMap),
                trace |-> <<>>]

\* New's loop body: the option ran; its error, if any, ends New
NewApply(res) ==
    /\ router' = res.router
    /\ nerr' = res.err
    /\ pc' = IF res.err # Nil THEN "failed" ELSE "setup"
    /\ UNCHANGED <<req, bind, resp, log, env, prev, sched, getter>>

ByType(o) ==
    /\ pc = "setup"
    /\ NewApply(Option(router, Opt("ByType", o.key, o.opts, <<>>)))

ByName(o) ==
    /\ pc = "setup"
    /\ NewApply(Option(router, Opt("ByName", o.key, o.opts, <<>>)))

ResponseEncoder ==
    /\ pc = "setup"
    /\ NewApply(Option(router, Opt("ResponseEncoder", "", <<>>, <<>>)))

\* A route's node is marked as allowing a remainder
MarkRemainder(n) ==
    /\ pc = "setup"
    /\ n \in router.nodes \cup {RootNode("get")}
    /\ n \notin router.remainder
    /\ Cardinality(router.remainder) < MaxRemainder
    /\ NewApply([router |-> markRemainder(router, n), err |-> Nil])

HandleError ==
    /\ pc = "setup"
    /\ NewApply(Option(router, Opt("HandleError", "", <<>>, <<>>)))

Middleware(middleware) ==
    /\ pc = "setup"
    /\ Len(router.middleware) + Len(middleware) <= MaxMiddleware
    /\ NewApply(Option(router, Opt("Middleware", "", middleware, <<>>)))

Get(input) ==
    /\ pc = "setup"
    /\ Len(router.routes) < MaxRoutes
    /\ NewApply(Option(router, Opt("Get", "", <<>>, input)))

Post(input) ==
    /\ pc = "setup"
    /\ Len(router.routes) < MaxRoutes
    /\ NewApply(Option(router, Opt("Post", "", <<>>, input)))

Put(input) ==
    /\ pc = "setup"
    /\ Len(router.routes) < MaxRoutes
    /\ NewApply(Option(router, Opt("Put", "", <<>>, input)))

Delete(input) ==
    /\ pc = "setup"
    /\ Len(router.routes) < MaxRoutes
    /\ NewApply(Option(router, Opt("Delete", "", <<>>, input)))

\* New returns the http.HandlerFunc: requests can be served from now on
NewReturn ==
    /\ pc = "setup"
    /\ pc' = "idle"
    /\ UNCHANGED <<router, nerr, req, bind, resp, log, env, prev, sched, getter>>

\* New called with a whole option list
NewDone(res) ==
    /\ router' = res.router
    /\ nerr' = res.err
    /\ pc' = IF res.err # Nil THEN "failed" ELSE "idle"
    /\ UNCHANGED <<req, bind, resp, log, env, prev, sched, getter>>

New(opts) ==
    /\ pc = "setup"
    /\ NewDone(Join(router, opts))

----------------------------------------------------------------------------
(* One request at a time *)

Start(s) ==
    /\ req' = s.req
    /\ bind' = s.bind
    /\ pc' = s.pc
    /\ log' = s.log
    /\ resp' = s.resp

\* A handler whose lookup links a static child for the first segment of the
\* path it is given
ServeLinking(method, target) ==
    /\ pc = "idle"
    /\ Start(serve(router, method, URLOf(target)))
    /\ env' = EmptyMap
    /\ prev' = NoPrev
    /\ router' = [router EXCEPT !.nodes = @ \cup {StaticChild(Node(method), <<"x">>)}]
    /\ UNCHANGED <<nerr, sched, getter>>

\* The handler New returned is called with a request
Serve(method, target) ==
    /\ pc = "idle"
    /\ Start(serve(router, method, URLOf(target)))
    /\ env' = EmptyMap
    /\ prev' = NoPrev
    /\ UNCHANGED <<router, nerr, sched, getter>>

Swap(method) == IF method = "GET" THEN "HEAD" ELSE "GET"

\* The same request again with GET and HEAD exchanged, its collaborators
\* behaving as they did
Repeat ==
    /\ pc = "done"
    /\ req.matched # NoHandler
    /\ req.method \in {"GET", "HEAD"}
    /\ prev = NoPrev
    /\ Start(serve(router, Swap(req.method), req.url))
    /\ prev' = [method |-> req.method, matched |-> req.matched, log |-> log]
    /\ UNCHANGED <<router, nerr, env, sched, getter>>

Step(s, e, k, out) ==
    /\ bind' = s.bind
    /\ pc' = s.pc
    /\ log' = Append(log, e)
    /\ env' = Put2(env, k, out)
    /\ sched' = [sched EXCEPT !.trace = traced(@, sched.id, e)]
    /\ UNCHANGED <<router, nerr, req, prev, getter>>

ModStep(out) ==
    /\ pc = "fields"
    /\ out \in Outcomes(Key("mod", bind.i, bind.j), ModOutcomes(Fields[bind.i][bind.j]))
    /\ LET res == modResult(Fields[bind.i][bind.j], bind.pathTail, out)
       IN  Step(modStep(bind, Fields, req.method, res),
                Event("mod", bind.i, bind.j, res, popped(Fields[bind.i][bind.j], bind.pathTail)),
                Key("mod", bind.i, bind.j), out)
    /\ UNCHANGED resp

FieldDeferStep(out) ==
    /\ pc = "fieldDefer"
    /\ bind.closers # <<>>
    /\ LET c == Last(bind.closers)
       IN  /\ out \in Outcomes(Key("close", c[1], c[2]), {"nil", "err", "panic"})
           /\ Step(fieldDefer(bind, out), Event("close", c[1], c[2], out, bind.err),
                   Key("close", c[1], c[2]), out)
    /\ UNCHANGED resp

FieldReturn ==
    /\ pc = "fieldDefer"
    /\ bind.closers = <<>>
    /\ bind' = fieldReturn(bind).bind
    /\ pc' = fieldReturn(bind).pc
    /\ UNCHANGED <<router, nerr, req, resp, log, env, prev, sched, getter>>

HandlerStep(out) ==
    /\ pc = "handler"
    /\ out \in Outcomes(Key("handler", 0, 0), {"ok", "err", "panic"})
    /\ Step(handlerStep(bind, out), Event("handler", 0, 0, out, Nil),
            Key("handler", 0, 0), out)
    /\ UNCHANGED resp

EncodeStep(out) ==
    /\ pc = "encode"
    /\ out \in IF router.responseEncoder
               THEN Outcomes(Key("encode", 0, 0), {"ok", "err"})
               ELSE {"unset"}
    /\ Step(encodeStep(bind, out), Event("encode", 0, 0, out, bind.res),
            Key("encode", 0, 0), out)
    /\ resp' = IF out = "ok" THEN write(resp, 200, <<"encoded">>) ELSE resp

DeferStep ==
    /\ pc = "defers"
    /\ bind.defers # <<>>
    /\ bind' = deferStep(bind).bind
    /\ pc' = deferStep(bind).pc
    /\ UNCHANGED <<router, nerr, req, resp, log, env, prev, sched, getter>>

CloseStep(out) ==
    /\ pc = "closing"
    /\ bind.cur # <<>>
    /\ LET c == Last(bind.cur)
       IN  /\ out \in Outcomes(Key("close", c[1], c[2]), {"nil", "err", "panic"})
           /\ Step(closeStep(bind, out), Event("close", c[1], c[2], out, bind.mErr),
                   Key("close", c[1], c[2]), out)
    /\ UNCHANGED resp

CloseReturn ==
    /\ pc = "closing"
    /\ bind.cur = <<>>
    /\ bind' = closeReturn(bind).bind
    /\ pc' = closeReturn(bind).pc
    /\ UNCHANGED <<router, nerr, req, resp, log, env, prev, sched, getter>>

\* handleRoute returns through its first deferred function; the route's
\* handler passes an error to router.HandleErr
Return ==
    /\ pc = "defers"
    /\ bind.defers = <<>>
    /\ LET b == recovered(bind)
           e == <<"handling request">> \o b.mErr
       IN  /\ bind' = b
           /\ log' = IF b.mErr # Nil
                     THEN Append(log, Event("HandleErr", 0, 0, "ok", e))
                     ELSE log
           /\ resp' = IF b.mErr # Nil THEN HandleErr(router, resp, e) ELSE resp
    /\ pc' = "done"
    /\ UNCHANGED <<router, nerr, req, env, prev, sched, getter>>

\* The handler New returned has returned: the server is free for the next
\* request
Finish ==
    /\ pc = "done"
    /\ pc' = "idle"
    /\ req' = NoReq
    /\ bind' = NoBind
    /\ resp' = NoResp
    /\ log' = <<>>
    /\ env' = EmptyMap
    /\ prev' = NoPrev
    /\ sched' = [sched EXCEPT !.trace = <<>>]
    /\ UNCHANGED <<router, nerr, getter>>

\* The scheduler takes the running goroutine off and resumes the other one
Switch ==
    /\ pc \notin {"setup", "failed"}
    /\ pc' = sched.parked.pc
    /\ req' = sched.parked.req
    /\ bind' = resumed(sched.parked.bind, bind)
    /\ resp' = sched.parked.resp
    /\ log' = sched.parked.log
    /\ env' = sched.parked.env
    /\ sched' = [sched EXCEPT !.id = 3 - @,
                               !.parked = Locals(pc, req, bind, resp, log, env)]
    /\ UNCHANGED <<router, nerr, prev, getter>>

\* Requests served by the routers of the option lists
Next ==
    \/ \E opts \in Configs : New(opts)
    \/ \E method \in Methods, target \in Targets : Serve(method, target)
    \/ Repeat
    \/ \E out \in {"ok", "closer", "err", "panic"} : ModStep(out)
    \/ \E out \in {"nil", "err", "panic"} : FieldDeferStep(out)
    \/ FieldReturn
    \/ \E out \in {"ok", "err", "panic"} : HandlerStep(out)
    \/ \E out \in {"ok", "err", "unset"} : EncodeStep(out)
    \/ DeferStep
    \/ \E out \in {"nil", "err", "panic"} : CloseStep(out)
    \/ CloseReturn
    \/ Return
    \/ Finish

Spec == Init /\ [][Next]_vars

\* Every router New can build, one option at a time
NextNew ==
    \/ \E o \in TypeOptions : ByType(o)
    \/ \E o \in NameOptions : ByName(o)
    \/ ResponseEncoder
    \/ \E input \in GetInputs : Get(input)
    \/ \E input \in PostInputs : Post(input)
    \/ \E input \in PutInputs : Put(input)
    \/ \E input \in DeleteInputs : Delete(input)
    \/ NewReturn

SpecNew == Init /\ [][NextNew]_vars

\* The tries of GET routes of up to three segments, with nodes marked as
\* allowing a remainder
NextTrie ==
    \/ \E o \in {t \in TypeOptions : t.key \in {"Fixed", "string"}} : ByType(o)
    \/ \E input \in TrieInputs : Get(input)
    \/ \E n \in TrieNodes : MarkRemainder(n)

SpecTrie == Init /\ [][NextTrie]_vars

\* Routers with nodes that allow a remainder, and the requests they serve:
\* GET routes of fixed and variable segments, which acquire no cleanup
NextRem ==
    \/ \E o \in {t \in TypeOptions : t.key \in {"Fixed", "string"}} : ByType(o)
    \/ \E input \in {<<FFoo>>, <<FId>>, <<FFoo, FId>>} : Get(input)
    \/ \E n \in TrieNodes : MarkRemainder(n)
    \/ NewReturn
    \/ ResponseEncoder
    \/ \E method \in {"GET", "HEAD"}, target \in RemTargets : Serve(method, target)
    \/ \E out \in {"ok"} : ModStep(out)
    \/ \E out \in {"ok"} : HandlerStep(out)
    \/ \E out \in {"ok", "unset"} : EncodeStep(out)
    \/ Return
    \/ Finish

SpecRem == Init /\ [][NextRem]_vars

\* Routers with a route at the root, at the child for the empty segment and
\* at the dynamic child, and the requests they serve, whose paths have empty
\* segments
NextSplit ==
    \/ \E o \in SplitOptions : ByType(o)
    \/ \E input \in SplitInputs : Get(input)
    \/ MarkRemainder(RootNode("get"))
    \/ NewReturn
    \/ ResponseEncoder
    \/ \E method \in {"GET", "HEAD"}, target \in SplitTargets : Serve(method, target)
    \/ \E out \in {"ok"} : ModStep(out)
    \/ \E out \in {"ok"} : HandlerStep(out)
    \/ \E out \in {"ok", "unset"} : EncodeStep(out)
    \/ Return
    \/ Finish

SpecSplit == Init /\ [][NextSplit]_vars

\* Routers with an error handler and middleware, built one option at a time,
\* and the requests they serve: routes of one field, bound by its type to a
\* fixed segment or by its name to a request value, which acquire no cleanup
NextMw ==
    \/ \E o \in {t \in TypeOptions : t.key = "Fixed"} : ByType(o)
    \/ \E o \in NameOptions : ByName(o)
    \/ ResponseEncoder
    \/ HandleError
    \/ \E middleware \in Middlewares : Middleware(middleware)
    \/ \E input \in {<<FFoo>>} : Get(input)
    \/ \E input \in {<<FFoo>>} : Post(input)
    \/ NewReturn
    \/ \E method \in {"GET", "POST"}, target \in MwTargets : Serve(method, target)
    \/ \E out \in {"ok"} : ModStep(out)
    \/ \E out \in {"ok", "err", "panic"} : HandlerStep(out)
    \/ \E out \in {"ok", "err", "unset"} : EncodeStep(out)
    \/ Return
    \/ Finish

SpecMw == Init /\ [][NextMw]_vars

\* Two requests served at the same time by two goroutines, one request each,
\* on a route of two fields that acquire three cleanups
ConcConfigs == { <<Enc, TPtr, NFoo, G(<<FV, FFoo>>)>> }

NextConc ==
    \/ \E opts \in ConcConfigs : New(opts)
    \/ \E method \in {"GET"}, target \in {TargetOf(<<>>)} : Serve(method, target)
    \/ Switch
    \/ \E out \in {"closer", "err"} : ModStep(out)
    \/ \E out \in {"nil"} : FieldDeferStep(out)
    \/ FieldReturn
    \/ \E out \in {"ok"} : HandlerStep(out)
    \/ \E out \in {"ok"} : EncodeStep(out)
    \/ DeferStep
    \/ \E out \in {"nil", "panic"} : CloseStep(out)
    \/ CloseReturn
    \/ Return

SpecConc == Init /\ [][NextConc]_vars

----------------------------------------------------------------------------
(* getter.IntoStruct called with a struct of zero values *)

InitGetter ==
    /\ \E t \in StructTypes, query \in Queries :
            getter = [NoGetter EXCEPT !.pc = "start", !.t = t, !.query = query,
                                      !.value = [i \in DOMAIN t |-> ZeroValue]]
    /\ router = ZeroRouter
    /\ pc = "setup"
    /\ nerr = Nil
    /\ req = NoReq
    /\ bind = NoBind
    /\ resp = NoResp
    /\ log = <<>>
    /\ env = EmptyMap
    /\ prev = NoPrev
    /\ sched = [id |-> 1, parked |-> Locals("idle", NoReq, NoBind, NoResp, <<>>, EmptyMap),
                trace |-> <<>>]

\* IntoStruct calls IntoStructTyped and returns its error, if any
IntoStructTyped ==
    /\ getter.pc = "start"
    /\ LET res == IntoStructTypedFrom(getter.t, 1)
       IN  getter' = [getter EXCEPT !.sets = res.sets, !.err = res.err,
                                    !.pc = IF res.err # Nil THEN "done" ELSE "typed"]
    /\ UNCHANGED <<router, pc, nerr, req, bind, resp, log, env, prev, sched>>

\* IntoStruct calls the function it got
IntoStruct ==
    /\ getter.pc = "typed"
    /\ LET res == parse(getter.t, getter.sets, getter.query, getter.value, 1)
       IN  getter' = [getter EXCEPT !.value = res.value, !.err = res.err,
                                    !.panic = res.panic, !.pc = "done"]
    /\ UNCHANGED <<router, pc, nerr, req, bind, resp, log, env, prev, sched>>

NextGetter ==
    \/ IntoStructTyped
    \/ IntoStruct

SpecGetter == InitGetter /\ [][NextGetter]_vars

----------------------------------------------------------------------------
(* The calls of a request, read off its log *)

Matched == req.matched # NoHandler
Finished == pc = "done" /\ Matched

\* The positions of the log that hold a call of one kind
Where(ev) == {k \in DOMAIN log : log[k].ev = ev}

\* The positions where a sub-modifier returned a cleanup, and the positions
\* where that cleanup was called
Acquired == {k \in Where("mod") : log[k].out = "closer"}
ClosesOf(a) == {k \in Where("close") : log[k].f = log[a].f /\ log[k].s = log[a].s}

\* The sub-modifiers (field, sub-option) of a route in declaration order
RECURSIVE SubModifiers(_, _, _)
SubModifiers(fields, i, j) ==
    IF i > Len(fields) THEN <<>>
    ELSE IF j > Len(fields[i]) THEN SubModifiers(fields, i + 1, 1)
    ELSE <<(<<i, j>>)>> \o SubModifiers(fields, i, j + 1)

Calls(l, ev) == SelectSeq(l, LAMBDA e : e.ev = ev)
Strip(l) == [k \in DOMAIN l |-> [ev |-> l[k].ev, f |-> l[k].f, s |-> l[k].s,
                                 out |-> l[k].out]]
Holds(err, word) == \E k \in DOMAIN err : err[k] = word

\* Decoded segment lists to look up
Paths == SeqsUpTo({<<"foo">>, <<"x">>}, MaxSegs)

----------------------------------------------------------------------------
(* Properties *)

\* C2 (as stated): when a request has ended, every cleanup acquired was run,
\* the cleanups ran in the reverse order of their acquisition, and none ran
\* before the last modifier, handler or encoder call.
C2_AllCleanupsInReverse ==
    Finished =>
        /\ \A a \in Acquired : ClosesOf(a) # {}
        /\ \A a1, a2 \in Acquired :
                a1 < a2 => \A c1 \in ClosesOf(a1), c2 \in ClosesOf(a2) : c2 < c1
        /\ \A c \in Where("close"),
              k \in Where("mod") \cup Where("handler") \cup Where("encode") : k < c

\* C3 (as stated): when a request has ended in which a sub-modifier or the
\* handler panicked, the error handler was called with the panic's error and
\* every cleanup acquired before the panic ran after it, in reverse order, and
\* received that error.
C3_PanicKeepsCleanups ==
    Finished =>
        \A k \in Where("mod") \cup Where("handler") :
            log[k].out = "panic" =>
                /\ \E h \in Where("HandleErr") : Holds(log[h].arg, "panic")
                /\ \A a \in Acquired :
                        /\ ClosesOf(a) # {}
                        /\ \A c \in ClosesOf(a) : c > k /\ Holds(log[c].arg, "panic")
                /\ \A a1, a2 \in Acquired :
                        a1 < a2 => \A c1 \in ClosesOf(a1), c2 \in ClosesOf(a2) : c2 < c1

\* C4: the sub-modifiers called so far are the first ones of the route in
\* declaration order, each but the last one called succeeded, and the handler
\* is called only after all of them succeeded.
C4_ModifiersInOrder ==
    Matched =>
        LET mods == Calls(log, "mod")
            subs == SubModifiers(Fields, 1, 1)
        IN  /\ Len(mods) <= Len(subs)
            /\ \A k \in DOMAIN mods : <<mods[k].f, mods[k].s>> = subs[k]
            /\ \A k \in 1..(Len(mods) - 1) : mods[k].out \in {"ok", "closer"}
            /\ \A h \in Where("handler") :
                    /\ Len(mods) = Len(subs)
                    /\ \A k \in DOMAIN mods : mods[k].out \in {"ok", "closer"}
                    /\ \A k \in Where("mod") : k < h

\* C4 witness: the first of two sub-modifiers of a field failed, a later field
\* exists, and the request has ended
C4_Witness ==
    /\ Finished
    /\ Len(Fields) = 2
    /\ Len(Fields[1]) = 2
    /\ Len(log) >= 1
    /\ log[1].ev = "mod" /\ log[1].out = "err"

\* C5 (as stated): when a request has ended, every cleanup acquired was called
\* exactly once, and on a request whose handler and encoder succeeded no
\* cleanup was called before the encoder wrote the body.
C5_CleanupsExactlyOnce ==
    Finished =>
        /\ \A a \in Acquired : Cardinality(ClosesOf(a)) = 1
        /\ \A e \in Where("encode") :
                log[e].out = "ok" => \A c \in Where("close") : e < c

\* What C6 says of the calls of a HEAD request: the route, the modifier calls
\* and the cleanup calls are those of the GET request, and neither the handler
\* nor the encoder is called
HeadAsGet ==
    /\ (req.method = "HEAD" /\ Matched) =>
            Where("handler") = {} /\ Where("encode") = {}
    /\ (Finished /\ prev # NoPrev) =>
            /\ req.matched = prev.matched
            /\ Strip(Calls(log, "mod")) = Strip(Calls(prev.log, "mod"))
            /\ Strip(Calls(log, "close")) = Strip(Calls(prev.log, "close"))

\* C6 (as stated): a HEAD request is served as the GET request is, without
\* the handler and the encoder, and nothing is written to its response body.
C6_HeadWritesNothing ==
    /\ HeadAsGet
    /\ (req.method = "HEAD" /\ Matched) => resp.body = <<>>

\* C6 (amended): a HEAD request is served as the GET request is, without the
\* handler and the encoder; no encoded body is written, and what is written is
\* written by the error handler, called with the binding or cleanup error.
C6_HeadWritesOnlyErrors ==
    /\ HeadAsGet
    /\ (req.method = "HEAD" /\ Matched) =>
            /\ \A k \in DOMAIN resp.body : resp.body[k] # <<"encoded">>
            /\ Len(resp.body) = Cardinality(Where("HandleErr"))
            /\ Len(resp.body) <= 1

\* C6 witness: a HEAD request that repeats a GET request whose handler ran has
\* ended with a cleanup called and an error body written
C6_Witness ==
    /\ Finished
    /\ req.method = "HEAD"
    /\ prev.method = "GET"
    /\ Calls(prev.log, "handler") # <<>>
    /\ Where("close") # {}
    /\ Len(resp.body) = 1

\* C7: a request whose raw path holds a malformed escape is answered 400, a
\* request whose lookup misses is answered 404, and in both cases nothing is
\* called for it.
C7_RejectedBeforeRoute ==
    req.method # "" =>
        /\ (\E k \in DOMAIN req.url.RawPath : req.url.RawPath[k] = "%zz") =>
                /\ pc = "done" /\ ~Matched
                /\ resp.status = 400
                /\ log = <<>>
        /\ (/\ splitPath(req.url).err = Nil
            /\ ~Handler(router, Node(req.method), splitPath(req.url).path).ok) =>
                /\ pc = "done" /\ ~Matched
                /\ resp.status = 404
                /\ log = <<>>
        /\ ~Matched => resp.status \in {400, 404}

\* C7 witness: a request with a malformed escape was answered by a router
\* that has a route with a variable segment
C7_Witness ==
    /\ pc = "done"
    /\ resp.status = 400
    /\ \E k \in DOMAIN router.routes : router.routes[k].node = DynChild(RootNode("get"))

\* The root a route option registers under, by request method
RootOfMethod(method) ==
    CASE method \in {"GET", "HEAD"} -> "get"
      [] method = "POST" -> "post"
      [] method = "PUT" -> "put"
      [] method = "DELETE" -> "delete"

\* C10: HEAD is looked up as GET is; a lookup under GET, POST, PUT or DELETE
\* finds only routes registered under that method; under any other method
\* every lookup misses, so that a request whose path decodes is answered 404.
C10_MethodRoots ==
    /\ \A p \in Paths :
            /\ Handler(router, Node("HEAD"), p) = Handler(router, Node("GET"), p)
            /\ ~Handler(router, Node("OPTIONS"), p).ok
            /\ \A m \in {"GET", "POST", "PUT", "DELETE"} :
                    LET h == Handler(router, Node(m), p)
                    IN  h.ok => router.routes[h.handler].root = RootOfMethod(m)
    /\ Matched => Route.root = RootOfMethod(req.method)
    /\ req.method = "OPTIONS" =>
            /\ ~Matched
            /\ log = <<>>
            /\ splitPath(req.url).err = Nil => resp.status = 404

\* C10 witness: a POST request was matched on a router that has a GET route,
\* a PUT route and a DELETE route at the same path
C10_Witness ==
    /\ Finished
    /\ req.method = "POST"
    /\ \A root \in Roots :
            \E k \in DOMAIN router.routes :
                /\ router.routes[k].root = root
                /\ router.routes[k].node.steps = Route.node.steps

\* The methods whose requests are looked up for the routes of a root
MethodsOf(root) ==
    CASE root = "get" -> {"GET", "HEAD"}
      [] root = "post" -> {"POST"}
      [] root = "put" -> {"PUT"}
      [] root = "delete" -> {"DELETE"}

\* The values a variable segment takes
Values == {<<"foo">>, <<"x">>}

\* The segment lists that instantiate a pattern: its fixed segments
\* literally, each variable segment with any value
RECURSIVE Instances(_)
Instances(steps) ==
    IF steps = <<>> THEN {<<>>}
    ELSE IF Head(steps).kind = "s"
    THEN {<<Head(steps).key>> \o p : p \in Instances(Tail(steps))}
    ELSE {<<v>> \o p : v \in Values, p \in Instances(Tail(steps))}

\* The value of a variable segment of p is the literal of a fixed segment
\* registered at the same position
Shadowed(r, n, p) ==
    \E k \in DOMAIN p :
        /\ n.steps[k].kind = "d"
        /\ StaticChild([root |-> n.root, steps |-> SubSeq(n.steps, 1, k - 1)], p[k])
                \in r.nodes

\* The routes registered for the pattern of node n
RoutesAt(r, n) == {k \in DOMAIN r.routes : r.routes[k].node = n}

\* C1 (as stated): for every registered route, the lookup of every instance
\* of its pattern under its method returns a handler registered for that
\* pattern.
C1_InstanceReturnsHandler ==
    \A k \in DOMAIN router.routes :
        LET n == router.routes[k].node
        IN  \A p \in Instances(n.steps), m \in MethodsOf(n.root) :
                LET h == Handler(router, Node(m), p)
                IN  h.ok /\ h.handler \in RoutesAt(router, n)

\* C1 (amended): for every registered route, the lookup of every instance of
\* its pattern under its method finds a handler, and unless the value of a
\* variable segment is the literal of a fixed segment registered at the same
\* position, that handler is the one registered last for the pattern.
C1_InstanceReturnsHandlerUnlessShadowed ==
    \A k \in DOMAIN router.routes :
        LET n == router.routes[k].node
        IN  \A p \in Instances(n.steps), m \in MethodsOf(n.root) :
                LET h == Handler(router, Node(m), p)
                IN  /\ h.ok
                    /\ ~Shadowed(router, n, p) =>
                            /\ h.handler \in RoutesAt(router, n)
                            /\ \A j \in RoutesAt(router, n) : j <= h.handler

\* C1 witness: a route with one variable segment and a route with the fixed
\* segment foo are registered under GET
C1_Witness ==
    /\ RoutesAt(router, DynChild(RootNode("get"))) # {}
    /\ RoutesAt(router, StaticChild(RootNode("get"), <<"foo">>)) # {}

\* The input types route options are given
Inputs == GetInputs \cup PostInputs \cup PutInputs \cup DeleteInputs

\* C8: no registered route has a non-exported field; registering an input
\* type with a non-exported field at any position returns an error and binds
\* no handler; and once an option has returned an error New hands out no
\* handler.
C8_UnexportedFieldFails ==
    /\ \A k \in DOMAIN router.routes :
            \A i \in DOMAIN router.routes[k].input :
                router.routes[k].input[i].pkgPath = ""
    /\ \A root \in Roots, input \in Inputs :
            (\E i \in DOMAIN input : input[i].pkgPath # "") =>
                LET res == routeHandler(router, root, input)
                IN  /\ res.err # Nil
                    /\ res.router.handler = router.handler
                    /\ res.router.routes = router.routes
    /\ nerr # Nil => pc = "failed" /\ ~ENABLED NewReturn

\* C8 witness: New has failed on a non-exported second field although an
\* option is registered for its type
C8_Witness ==
    /\ pc = "failed"
    /\ nerr = <<"field is not exported", "private">>
    /\ "string" \in DOMAIN router.typeRouteOptions
    /\ StaticChild(RootNode("get"), <<"foo">>) \in router.nodes

\* C9: registering a field compiles the option registered under its name when
\* there is one, else the option registered under its type, and fails with an
\* error naming the field, binding no handler, when there is neither.
C9_NameBeforeType ==
    \A field \in {FFoo, FId, FV} :
        LET c == [nodes |-> router.nodes, node |-> RootNode("get")]
            res == routeHandler(router, "get", <<field>>)
            named == field.name \in DOMAIN router.nameRouteOptions
            typed == field.type \in DOMAIN router.typeRouteOptions
            option == IF named THEN router.nameRouteOptions[field.name]
                      ELSE router.typeRouteOptions[field.type]
        IN  /\ (named \/ typed) =>
                    /\ res.err = Nil
                    /\ Last(res.router.routes).fields = <<option>>
                    /\ Last(res.router.routes).node
                            = combinedFieldModifier(option, c, field.name).c.node
            /\ ~(named \/ typed) =>
                    /\ res.err = <<"no option for field", field.name, field.type>>
                    /\ res.router.handler = router.handler
                    /\ res.router.routes = router.routes

\* C9 witness: a route whose field Foo was compiled from the option
\* registered under its name is bound at the root, while an option is
\* registered under its type too
C9_Witness ==
    /\ "Foo" \in DOMAIN router.nameRouteOptions
    /\ "Fixed" \in DOMAIN router.typeRouteOptions
    /\ \E k \in DOMAIN router.routes :
            /\ router.routes[k].input = <<FFoo>>
            /\ router.routes[k].fields = <<(<<"Closable">>)>>
            /\ router.routes[k].node = RootNode("get")
            /\ HandlerAt(router, RootNode("get")) = k

----------------------------------------------------------------------------
(* Raw paths *)

\* The segments of a raw path, cut at its slashes and not decoded
RawSegs(raw) == Tail(Split(raw))

\* The calls of the sub-modifiers that pop a segment, in order
PopCalls ==
    SelectSeq(log, LAMBDA e : e.ev = "mod" /\ Pops(Fields[e.f][e.s]))

\* C11: a request with a raw path that decodes has one segment per slash of
\* the raw path, segment i being raw segment i with each escape decoded once
\* (%2F to a slash that does not split it, %252F to the characters %2F); the
\* route matched is the one the lookup of these segments finds, the k-th
\* modifier that takes a segment is given segment k, and once the modifiers
\* are through they have taken as many segments as the lookup used.
C11_RawSplitThenDecodedOnce ==
    (/\ req.method # ""
     /\ req.url.RawPath # <<>>
     /\ \A k \in DOMAIN req.url.RawPath : req.url.RawPath[k] # "%zz") =>
        LET raw == req.url.RawPath
            segs == RawSegs(raw)
        IN  /\ Len(req.path) = Cardinality({k \in DOMAIN raw : raw[k] = "/"})
            /\ Len(req.path) = Len(segs)
            /\ \A i \in DOMAIN req.path :
                    /\ Len(req.path[i]) = Len(segs[i])
                    /\ \A k \in DOMAIN segs[i] :
                            req.path[i][k] =
                                CASE segs[i][k] = "%2F" -> "/"
                                  [] segs[i][k] = "%252F" -> "%2F"
                                  [] OTHER -> segs[i][k]
            /\ Matched =>
                    /\ Handler(router, Node(req.method), req.path).handler = req.matched
                    /\ Len(PopCalls) <= Len(req.path)
                    /\ \A k \in DOMAIN PopCalls : PopCalls[k].arg = req.path[k]
                    /\ pc \in {"handler", "encode", "done"}
                       /\ (\A k \in Where("mod") : log[k].out \in {"ok", "closer"})
                            => Len(PopCalls) = Len(req.path)

\* C11 witness: the request /foo/%2FWorld has ended after its handler ran, the
\* modifier of the variable segment having been given /World
C11_Witness ==
    /\ Finished
    /\ req.url.RawPath = TargetOf(<< <<"foo">>, <<"%2F", "World">> >>)
    /\ Where("handler") # {}
    /\ \E k \in Where("mod") : log[k].arg = <<"/", "World">>

----------------------------------------------------------------------------
(* Handler, encoder and error handler *)

\* The error handler was called with this error
Handled(err) == \E h \in Where("HandleErr") : log[h].arg = err

\* C12: on a request other than HEAD the handler is called at most once; when
\* it returned an error the encoder is not called and the error handler gets
\* the wrapped handler error; when it succeeded the encoder that is set is
\* called exactly once, with the handler's result, and an error it returns
\* goes wrapped to the error handler (with no encoder set the call panics and
\* the panic goes to the error handler); and with no error handler set the
\* response of a request whose handler or encoder failed is status 500 with
\* the text of that error.
C12_HandlerThenEncoder ==
    (Matched /\ req.method # "HEAD") =>
        /\ Cardinality(Where("handler")) <= 1
        /\ Cardinality(Where("encode")) <= 1
        /\ \A e \in Where("encode") :
                /\ \E h \in Where("handler") : h < e /\ log[h].out = "ok"
                /\ log[e].arg = <<"result">>
                /\ log[e].out # "unset" <=> router.responseEncoder
        /\ \A h \in Where("handler") :
                /\ (log[h].out = "ok" /\ pc # "encode") => Where("encode") # {}
                /\ log[h].out = "err" =>
                        /\ pc # "encode"
                        /\ Where("encode") = {}
                        /\ Finished =>
                                Handled(<<"handling request", "handling request",
                                          "handler error">>)
        /\ \A e \in Where("encode") :
                /\ (log[e].out = "err" /\ Finished) =>
                        Handled(<<"handling request", "encoding response",
                                  "encoder error">>)
                /\ (log[e].out = "unset" /\ Finished) =>
                        Handled(<<"handling request", "panic">>)
        /\ \A k \in Where("handler") \cup Where("encode") :
                (log[k].out \in {"err", "unset"} /\ Finished) =>
                    \A h \in Where("HandleErr") :
                        resp = IF router.handleErr
                               THEN [status |-> 503, body |-> <<(<<"handled">>)>>]
                               ELSE [status |-> 500, body |-> <<log[h].arg>>]

\* C12 witness: a request has ended whose handler succeeded and whose encoder
\* returned an error, a cleanup having run after it, on a router with no error
\* handler set; the response is status 500
C12_Witness ==
    /\ Finished
    /\ ~router.handleErr
    /\ \E e \in Where("encode") :
            /\ log[e].out = "err"
            /\ \E c \in Where("close") : e < c
    /\ resp.status = 500

\* A request has ended whose handler returned an error, on a router with an
\* error handler set
C12_WitnessHandleError ==
    /\ Finished
    /\ router.handleErr
    /\ \E h \in Where("handler") : log[h].out = "err"
    /\ resp.status = 503

----------------------------------------------------------------------------
(* Options in order *)

\* The router after the first n options of a list, each applied to the router
\* the ones before it left
RECURSIVE Applied(_, _, _)
Applied(r, opts, n) ==
    IF n = 0 THEN r ELSE Option(Applied(r, opts, n - 1), opts[n]).router

\* The options of a list that return an error when all before them were
\* applied in order and returned none: the first failing one, if any
FirstFailing(r, opts) ==
    {k \in DOMAIN opts :
        /\ Option(Applied(r, opts, k - 1), opts[k]).err # Nil
        /\ \A j \in 1..(k - 1) : Option(Applied(r, opts, j - 1), opts[j]).err = Nil}

\* What New is to return for an option list: the router and no error when no
\* option fails, else the error of the first failing option, the router being
\* as that option left it
Built(opts) ==
    IF FirstFailing(ZeroRouter, opts) = {}
    THEN [router |-> Applied(ZeroRouter, opts, Len(opts)), err |-> Nil]
    ELSE LET k == CHOOSE k \in FirstFailing(ZeroRouter, opts) : TRUE
         IN  Option(Applied(ZeroRouter, opts, k - 1), opts[k])

\* C13: once New has run, the router is the one its options build when they
\* are applied in the order given up to the first one that returns an error,
\* and the error New returned is that option's error; when there is one, no
\* later option has been applied, and no handler exists to serve a request.
C13_OptionsInOrderUntilError ==
    pc # "setup" =>
        /\ \E opts \in Configs : router = Built(opts).router /\ nerr = Built(opts).err
        /\ nerr # Nil =>
                /\ pc = "failed"
                /\ req = NoReq /\ resp = NoResp /\ log = <<>>
                /\ ~ENABLED Next

\* C13 witness: New has failed on a route given before the option that binds
\* its field, and neither that option nor the route after it was applied
C13_Witness ==
    /\ pc = "failed"
    /\ nerr = <<"no option for field", "Foo", "Fixed">>
    /\ router.responseEncoder
    /\ router.typeRouteOptions = EmptyMap
    /\ router.routes = <<>>

----------------------------------------------------------------------------
(* Requests served at the same time *)

\* The calls made so far by goroutine g
LogOf(g) == IF g = sched.id THEN log ELSE sched.parked.log

\* The positions of a log that hold a call of one kind
At(l, ev) == {k \in DOMAIN l : l[k].ev = ev}

\* The cleanup calls goroutine g made, as the order of all cleanup calls has
\* them
TraceOf(g) == SelectSeq(sched.trace, LAMBDA t : t.id = g)

\* C14 (as stated): the cleanups of a request run in the reverse order of its
\* own acquisitions, none of them was acquired by another request, and
\* between two cleanups of one request no cleanup of another request runs.
C14_CleanupsNotInterleaved ==
    /\ \A g \in {1, 2} :
            LET l == LogOf(g)
            IN  /\ \A c \in At(l, "close") :
                        \E a \in At(l, "mod") :
                            a < c /\ l[a].out = "closer"
                                  /\ l[a].f = l[c].f /\ l[a].s = l[c].s
                /\ \A c1, c2 \in At(l, "close") :
                        c1 < c2 => <<l[c2].f, l[c2].s>> # <<l[c1].f, l[c1].s>>
                /\ \A c1, c2 \in At(l, "close"), a1, a2 \in At(l, "mod") :
                        (/\ c1 < c2
                         /\ l[a1].f = l[c1].f /\ l[a1].s = l[c1].s
                         /\ l[a2].f = l[c2].f /\ l[a2].s = l[c2].s) => a2 < a1
                /\ TraceOf(g) = [k \in DOMAIN Calls(l, "close") |->
                                    [id |-> g, f |-> Calls(l, "close")[k].f,
                                     s |-> Calls(l, "close")[k].s]]
    /\ \A a, b, c \in DOMAIN sched.trace :
            (a < b /\ b < c /\ sched.trace[a].id = sched.trace[c].id)
                => sched.trace[b].id = sched.trace[a].id

\* C14 (amended): every cleanup a request runs is one this request acquired
\* before, no cleanup is run twice, the cleanups of a request run in the
\* reverse order of its acquisitions, and the cleanup calls made on behalf of
\* a request are those of its own goroutine; cleanups of two requests may
\* alternate in time.
C14_OwnCleanupsInReverse ==
    \A g \in {1, 2} :
        LET l == LogOf(g)
        IN  /\ \A c \in At(l, "close") :
                    \E a \in At(l, "mod") :
                        a < c /\ l[a].out = "closer"
                              /\ l[a].f = l[c].f /\ l[a].s = l[c].s
            /\ \A c1, c2 \in At(l, "close") :
                    c1 < c2 => <<l[c2].f, l[c2].s>> # <<l[c1].f, l[c1].s>>
            /\ \A c1, c2 \in At(l, "close"), a1, a2 \in At(l, "mod") :
                    (/\ c1 < c2
                     /\ l[a1].f = l[c1].f /\ l[a1].s = l[c1].s
                     /\ l[a2].f = l[c2].f /\ l[a2].s = l[c2].s) => a2 < a1
            /\ TraceOf(g) = [k \in DOMAIN Calls(l, "close") |->
                                [id |-> g, f |-> Calls(l, "close")[k].f,
                                 s |-> Calls(l, "close")[k].s]]

\* C14 witness: both requests have ended, the first having acquired three
\* cleanups and the second one, and a cleanup of the second ran between two
\* cleanups of the first
C14_Witness ==
    /\ pc = "done" /\ sched.parked.pc = "done"
    /\ Cardinality({a \in At(LogOf(1), "mod") : LogOf(1)[a].out = "closer"}) = 3
    /\ Cardinality({a \in At(LogOf(2), "mod") : LogOf(2)[a].out = "closer"}) = 1
    /\ Len(TraceOf(1)) = 3
    /\ \E a, b, c \in DOMAIN sched.trace :
            /\ a < b /\ b < c
            /\ sched.trace[a].id = 1 /\ sched.trace[b].id = 2 /\ sched.trace[c].id = 1

----------------------------------------------------------------------------
(* Middleware *)

\* C15: the chain of a route is made of the first middleware of the router,
\* in the order they were added; a matched request enters, before any field
\* modifier and the handler are called, every middleware of the chain of its
\* route once, the one added last first and the one added first last.
C15_LastAddedOutermost ==
    /\ \A k \in DOMAIN router.routes :
            LET chain == router.routes[k].middleware
            IN  /\ Len(chain) <= Len(router.middleware)
                /\ chain = SubSeq(router.middleware, 1, Len(chain))
    /\ Matched =>
            LET chain == Route.middleware
                n == Len(chain)
            IN  /\ Where("middleware") = 1..n
                /\ \A k \in 1..n : log[k].arg = <<chain[n + 1 - k]>>

\* C15 witness: a request has ended whose route is wrapped in m1 and m2, added
\* in that order; it entered m2, then m1, and then its handler ran; the router
\* has no middleware added after that route
C15_Witness ==
    /\ Finished
    /\ router.middleware = <<"m1", "m2">>
    /\ Route.middleware = <<"m1", "m2">>
    /\ Len(log) >= 4
    /\ log[1].arg = <<"m2">> /\ log[2].arg = <<"m1">>
    /\ log[3].ev = "mod" /\ log[4].ev = "handler"

\* A request has ended whose route is wrapped in m1 only, m2 having been added
\* after the route
C15_WitnessAddedLater ==
    /\ Finished
    /\ router.middleware = <<"m1", "m2">>
    /\ Route.middleware = <<"m1">>
    /\ Calls(log, "middleware") # <<>>

----------------------------------------------------------------------------
(* getter.IntoStruct *)

\* The query values under the key of field i: its getter tag, else its name
\* in kebab case
ValuesOf(i) ==
    LET field == getter.t[i]
    IN  getter.query[IF field.tag # "" THEN field.tag ELSE ToKebab(field.name)]

\* A query value parses as the kind, and what it parses to (of the values of
\* the model, only 1 is an int and a bool)
Parses(elem, value) == elem = "string" \/ (elem \in {"int", "bool"} /\ value = "1")
ParsedAs(elem, value) ==
    IF elem = "string" THEN [elem |-> elem, n |-> 0, s |-> value]
    ELSE [elem |-> elem, n |-> 1, s |-> ""]

\* Field i has as many values as its kind takes, and they parse
Fits(i) ==
    LET field == getter.t[i]
        values == ValuesOf(i)
    IN  /\ field.shape = "scalar" => Len(values) = 1
        /\ field.shape = "ptr" => Len(values) <= 1
        /\ \A k \in DOMAIN values : Parses(field.elem, values[k])

\* What field i holds after a call that set it by the rule of its kind
Expected(i) ==
    LET field == getter.t[i]
        values == ValuesOf(i)
        all == [k \in DOMAIN values |-> ParsedAs(field.elem, values[k])]
    IN  CASE field.anonymous -> ZeroValue
          [] field.shape = "ptr" /\ values = <<>> -> ZeroValue
          [] OTHER -> [shape |-> field.shape, vals |-> all]

\* The call returned an error exactly when a field that is not embedded does
\* not fit, and else every field is set by the rule of its kind
SetByCardinality ==
    LET fails == \E i \in DOMAIN getter.t : ~getter.t[i].anonymous /\ ~Fits(i)
    IN  /\ fails <=> getter.err # Nil
        /\ ~fails => \A i \in DOMAIN getter.t : getter.value[i] = Expected(i)

\* C16 (as stated): a call of IntoStruct returns; it returns an error when
\* a field that is not embedded has a value that does not parse or not the
\* number of values its kind takes (scalar: one; pointer: at most one; slice:
\* any), and else it has set every such field from the values under its key:
\* a scalar to the value, a pointer to nil or to the value, a slice to all
\* values in query order.
C16_SetsFieldsByCardinality ==
    getter.pc = "done" => ~getter.panic /\ SetByCardinality

\* The same for structs whose fields are all exported
C16_SetsExportedFieldsByCardinality ==
    (getter.pc = "done" /\ \A i \in DOMAIN getter.t : getter.t[i].pkgPath = "")
        => ~getter.panic /\ SetByCardinality

\* C16 witness: a call with a slice field that has two values and a tagged
\* pointer field that has one has returned without an error
C16_Witness ==
    /\ getter.pc = "done"
    /\ getter.err = Nil
    /\ Len(getter.t) = 2
    /\ getter.t[1].shape = "slice" /\ getter.query.a = <<"x", "1">>
    /\ getter.t[2].shape = "ptr" /\ getter.query.f = <<"1">> /\ getter.query.fom = <<>>
    /\ getter.value[2].shape = "ptr"

----------------------------------------------------------------------------
(* Lookup in the trie *)

\* The paths looked up in a trie
TriePaths == SeqsUpTo({<<"foo">>, <<"bar">>, <<"x">>}, MaxDepth)

\* The static and the dynamic attempt of the lookup of a non-empty path at
\* node n
StaticAttempt(n, p) ==
    IF StaticChild(n, Head(p)) \in router.nodes
    THEN Handler(router, StaticChild(n, Head(p)), Tail(p))
    ELSE NotFound

DynamicAttempt(n, p) ==
    IF DynChild(n) \in router.nodes
    THEN Handler(router, DynChild(n), Tail(p))
    ELSE NotFound

\* C17 (as stated): at a node that allows a remainder, the lookup of a
\* non-empty path whose static attempt is absent or failed and whose dynamic
\* attempt is absent or failed succeeds with the node's own handler, however
\* many segments remain.
C17_RemainderAfterFailedDynamic ==
    \A n \in router.remainder, p \in TriePaths \ {<<>>} :
        (~StaticAttempt(n, p).ok /\ ~DynamicAttempt(n, p).ok)
            => Handler(router, n, p) = [handler |-> HandlerAt(router, n), ok |-> TRUE]

\* The same for the nodes that have no dynamic child
C17_RemainderWithoutDynamic ==
    \A n \in router.remainder, p \in TriePaths \ {<<>>} :
        (~StaticAttempt(n, p).ok /\ DynChild(n) \notin router.nodes)
            => Handler(router, n, p) = [handler |-> HandlerAt(router, n), ok |-> TRUE]

\* C17 witness: the node of the route /foo allows a remainder and has a
\* dynamic child, and has no static child
C17_Witness ==
    LET n == StaticChild(RootNode("get"), <<"foo">>)
    IN  /\ n \in router.remainder
        /\ HandlerAt(router, n) # NoHandler
        /\ DynChild(n) \in router.nodes
        /\ HandlerAt(router, DynChild(n)) # NoHandler
        /\ StaticChild(n, <<"bar">>) \notin router.nodes

\* The segments of path p that remain at node m
Rest(p, m) == SubSeq(p, Len(m.steps) + 1, Len(p))

\* Node n lies below node m
Below(m, n) ==
    /\ n.root = m.root
    /\ Len(n.steps) > Len(m.steps)
    /\ SubSeq(n.steps, 1, Len(m.steps)) = m.steps

\* C18 (as stated): in a lookup from the GET root, the dynamic branch of a
\* node is evaluated only after a failure at the node's own static child, or
\* without a static attempt: never after branches were evaluated deeper inside
\* the node's static subtree, whose failure stays with the nodes below.
C18_DeepFailureStaysBelow ==
    \A p \in TriePaths :
        LET calls == Visits(router, RootNode("get"), p)
        IN  \A k \in DOMAIN calls :
                calls[k].branch = "d" =>
                    \A j \in 1..(k - 1) : ~Below(calls[k].node, calls[j].node)

\* C18 (amended): in a lookup from the GET root, no branch of a node is
\* evaluated twice, and the dynamic branch of a node is evaluated only as the
\* fallback of that node, when its static child for the segment is absent or
\* the lookup in that child's subtree has failed, at whatever depth.
C18_FallbackAtOwnNodeOnce ==
    \A p \in TriePaths :
        LET calls == Visits(router, RootNode("get"), p)
        IN  /\ \A j, k \in DOMAIN calls : calls[j] = calls[k] => j = k
            /\ \A k \in DOMAIN calls :
                    LET m == calls[k].node
                    IN  /\ m = RootNode("get") \/ m \in router.nodes
                        /\ Len(m.steps) < Len(p)
                        /\ calls[k].branch = "d" =>
                                /\ DynChild(m) \in router.nodes
                                /\ ~StaticAttempt(m, Rest(p, m)).ok
                                /\ \A j \in 1..(k - 1) :
                                        Below(m, calls[j].node) =>
                                            Below(StaticChild(m, Head(Rest(p, m))),
                                                  calls[j].node)
                                            \/ calls[j].node
                                                 = StaticChild(m, Head(Rest(p, m)))

\* C18 witness: with the routes /foo/bar/:id and /:id/bar, the lookup of
\* /foo/bar fails two levels deep in the static subtree of the root, and the
\* dynamic branch of the root is evaluated next
C18_Witness ==
    LET root == RootNode("get")
    IN  Visits(router, root, << <<"foo">>, <<"bar">> >>)
            = << [node |-> root, branch |-> "s"],
                 [node |-> StaticChild(root, <<"foo">>), branch |-> "s"],
                 [node |-> root, branch |-> "d"],
                 [node |-> DynChild(root), branch |-> "s"] >>

\* The position of the call into the dynamic branch of node n among the
\* calls, 0 when it is not made
DynamicCall(calls, n) ==
    LET at == {k \in DOMAIN calls : calls[k] = [node |-> n, branch |-> "d"]}
    IN  IF at = {} THEN 0 ELSE CHOOSE k \in at : TRUE

\* C19: for every node of the trie, the lookup of the empty path succeeds
\* exactly when the node's handler is set, and then with that handler; the
\* lookup of a non-empty path evaluates the static child for the first segment
\* first when it exists and returns its result when it succeeds; and when the
\* node has a dynamic child, it is evaluated exactly when the static child is
\* absent or its lookup failed, on the same remaining segments, and its result
\* is returned when it succeeds.
C19_StaticBeforeDynamic ==
    \A n \in router.nodes \cup {RootNode("get")} :
        /\ Handler(router, n, <<>>).ok <=> HandlerAt(router, n) # NoHandler
        /\ Handler(router, n, <<>>).handler = HandlerAt(router, n)
        /\ \A p \in TriePaths \ {<<>>} :
                LET calls == Visits(router, n, p)
                    static == StaticChild(n, Head(p))
                    k == DynamicCall(calls, n)
                IN  /\ static \in router.nodes =>
                            /\ calls # <<>>
                            /\ Head(calls) = [node |-> n, branch |-> "s"]
                            /\ StaticAttempt(n, p).ok =>
                                    Handler(router, n, p) = StaticAttempt(n, p)
                    /\ DynChild(n) \in router.nodes =>
                            /\ k # 0 <=> ~StaticAttempt(n, p).ok
                            /\ k # 0 =>
                                    /\ SubSeq(calls, k + 1, Len(calls))
                                            = Visits(router, DynChild(n), Tail(p))
                                    /\ DynamicAttempt(n, p).ok =>
                                            Handler(router, n, p) = DynamicAttempt(n, p)
                    /\ DynChild(n) \notin router.nodes => k = 0

\* C19 witness: the root has a static child foo with a handler and a dynamic
\* child with a handler, so that /foo matches both and /x the dynamic one only
C19_Witness ==
    LET root == RootNode("get")
    IN  /\ HandlerAt(router, StaticChild(root, <<"foo">>)) # NoHandler
        /\ HandlerAt(router, DynChild(root)) # NoHandler
        /\ Handler(router, root, << <<"foo">> >>).handler
                = HandlerAt(router, StaticChild(root, <<"foo">>))
        /\ Handler(router, root, << <<"x">> >>).handler = HandlerAt(router, DynChild(root))
        /\ HandlerAt(router, StaticChild(root, <<"foo">>))
                # HandlerAt(router, DynChild(root))

----------------------------------------------------------------------------
(* The error a cleanup is given *)

\* The error an event of the request raised, Nil when none
Raised(e) ==
    CASE e.out = "panic" \/ e.out = "unset" -> PanicErr
      [] e.ev = "mod" /\ e.out = "err" -> ModErr(e.f, e.s)
      [] e.ev = "handler" /\ e.out = "err" -> <<"handling request", "handler error">>
      [] e.ev = "encode" /\ e.out = "err" -> <<"encoding response", "encoder error">>
      [] e.ev = "close" /\ e.out = "err" -> CloserErr(<<e.f, e.s>>)
      [] OTHER -> Nil

\* The errors that binding, the handler and the encoder raised before event k
Terminal(k) ==
    {Raised(log[j]) : j \in {i \in 1..(k - 1) : log[i].ev \in {"mod", "handler", "encode"}}}
        \ {Nil}

\* The cleanups among the events js that raised an error, and the error of the
\* first of them, Nil when there is none
FirstCleanupErr(js) ==
    LET bad == {j \in js : log[j].ev = "close" /\ Raised(log[j]) # Nil}
    IN  IF bad = {} THEN Nil
        ELSE Raised(log[CHOOSE j \in bad : \A i \in bad : j <= i])

\* The errors a cleanup may be given at event k, when the cleanups at the
\* events js count as run before it: an error of binding, the handler or the
\* encoder (or of a panic) when there is one, else the first error of a
\* cleanup, else nil
Known(k, js) ==
    IF Terminal(k) # {}
    THEN Terminal(k) \cup {PanicErr}
    ELSE {FirstCleanupErr(js)}

GivenKnown(k, js) ==
    \E e \in Known(k, js) :
        log[k].arg = e \/ log[k].arg = <<"applying input option">> \o e

\* C20 (as stated): every cleanup is given the error of binding, of the
\* handler, of the encoder or of a panic when there is one, else the first
\* error of a cleanup that ran before it in the request, a cleanup of its own
\* field included, else nil.
C20_CleanupGivenKnownError ==
    \A k \in DOMAIN log :
        log[k].ev = "close" => GivenKnown(k, 1..(k - 1))

\* The same when only the cleanups of other fields count as run before
C20_CleanupGivenErrorOfOtherFields ==
    \A k \in DOMAIN log :
        log[k].ev = "close" =>
            GivenKnown(k, {j \in 1..(k - 1) : log[j].f # log[k].f})

\* C20 witness: the later-acquired cleanup of a field has returned an error
\* after the handler and the encoder succeeded, and the field's first cleanup
\* has run
C20_Witness ==
    \E j, k \in DOMAIN log :
        /\ j < k
        /\ log[j].ev = "close" /\ log[k].ev = "close"
        /\ log[j].f = log[k].f
        /\ log[j].out = "err"
        /\ \A i \in 1..(j - 1) : Raised(log[i]) = Nil

----------------------------------------------------------------------------
(* Errors returned by cleanups *)

\* The events of the request that raised an error, and the first of them (0
\* when there is none)
RaisedAt == {k \in DOMAIN log : Raised(log[k]) # Nil}
FirstRaised == IF RaisedAt = {} THEN 0 ELSE CHOOSE k \in RaisedAt : \A j \in RaisedAt : k <= j

\* The cleanups that returned an error
CleanupErrs == {k \in DOMAIN log : log[k].ev = "close" /\ log[k].out = "err"}

SeqRange(q) == {q[i] : i \in DOMAIN q}

\* The cleanups of the locals b that are acquired and have not run
RECURSIVE Flat(_)
Flat(ss) == IF ss = <<>> THEN <<>> ELSE Head(ss) \o Flat(Tail(ss))
Pending(b) == SeqRange(b.closers) \cup SeqRange(b.cur) \cup SeqRange(Flat(b.defers))

\* When the request is done and reports the error a cleanup
\* returned, no error was raised before that cleanup ran, so that of several
\* cleanups that returned errors it is the one that ran first; and when the
\* first error raised in a request is one a cleanup returned and no cleanup
\* panics, it is the error reported.
C21_FirstCleanupErrorReported ==
    pc = "done" =>
        /\ \A k \in CleanupErrs :
                bind.mErr = Raised(log[k]) => k = FirstRaised
        /\ (FirstRaised \in CleanupErrs /\ \A k \in RaisedAt : log[k].out # "panic")
                => bind.mErr = Raised(log[FirstRaised])

\* A cleanup that returns an error leaves every other acquired
\* cleanup to run: only the cleanup itself leaves the cleanups not yet run.
C21_ErrorKeepsCleanups ==
    [][(log' # log /\ Len(log') = Len(log) + 1 /\ Last(log').ev = "close"
            /\ Last(log').out = "err")
        => Pending(bind') = Pending(bind) \ {<<Last(log').f, Last(log').s>>}]_vars

----------------------------------------------------------------------------
(* The router after New *)

\* C22: once New has returned its handler, no step of a request (matched or
\* missed, failing or panicking, of one goroutine or another) changes the
\* router: its nodes, handlers, remainder marks, field options by name and by
\* type, and the routes with their compiled modifiers stay as they are.
C22_RouterFrozenAfterNew ==
    [][pc \notin {"setup", "failed"} => router' = router]_vars

\* C22 witness: a request that matched a route, acquired a cleanup and
\* panicked in its handler is done
C22_Witness ==
    /\ pc = "done"
    /\ Matched
    /\ Acquired # {}
    /\ \E k \in Where("handler") : log[k].out = "panic"
    /\ router.routes # <<>>

----------------------------------------------------------------------------
(* Registration that fails *)

\* The cursor a registration under a root starts with
Cursor(root) == [nodes |-> router.nodes, node |-> RootNode(root)]

\* The position of the first field of an input type that is not exported, 0
\* when all are exported
FirstPrivate(input) ==
    LET private == {k \in DOMAIN input : ~IsExported(input[k])}
    IN  IF private = {} THEN 0 ELSE CHOOSE k \in private : \A l \in private : k <= l

\* C23 (as stated): registering an input type with a non-exported field, at
\* whatever position, fails with no option of any of its fields run and the
\* cursor where it started, no node created.
C23_UnexportedFailsBeforeAnyOption ==
    \A root \in Roots, input \in Inputs :
        FirstPrivate(input) # 0 =>
            LET res == routeFields(router, Cursor(root), input, 1)
            IN  /\ res.err # Nil
                /\ res.ran = 0
                /\ res.c = Cursor(root)

\* C23 (amended): registering an input type whose first non-exported field is
\* at position i fails; when the fields before it have options, the error
\* names the field, exactly the options of the i - 1 fields before it were run,
\* in order, and the cursor is where they left it, with the nodes they
\* created; the option of the field itself and of the fields after it are not
\* run.
C23_UnexportedFailsBeforeItsOption ==
    \A root \in Roots, input \in Inputs :
        LET i == FirstPrivate(input)
            res == routeFields(router, Cursor(root), input, 1)
            before == routeFields(router, Cursor(root), SubSeq(input, 1, i - 1), 1)
        IN  i # 0 =>
                /\ res.err # Nil
                /\ before.err = Nil =>
                        /\ res.err = <<"field is not exported", input[i].name>>
                        /\ res.ran = i - 1
                        /\ res.c = before.c
                /\ before.err # Nil => res.err = before.err /\ res.ran = before.ran

\* C23 witness: New has failed on the non-exported second field of an input
\* type after the option of its first field created the node foo
C23_Witness ==
    /\ pc = "failed"
    /\ nerr = <<"field is not exported", "private">>
    /\ router.routes = <<>>
    /\ router.nodes = {StaticChild(RootNode("get"), <<"foo">>)}

\* A failed registration of the input type under the root leaves the handlers
\* and the routes as they were, and every lookup with its result
NoPartialRoute(root, input) ==
    LET res == routeHandler(router, root, input)
    IN  res.err # Nil =>
            /\ res.router.handler = router.handler
            /\ res.router.routes = router.routes
            /\ \A method \in Methods, p \in TriePaths :
                    Handler(res.router, Node(method), p) = Handler(router, Node(method), p)

\* C24 (as stated): a registration that fails at a field (not exported, no
\* option, or an option that returns an error) binds no handler, and every
\* lookup, for every method and path, returns what it returned before.
C24_FailedRegistrationInstallsNothing ==
    \A root \in Roots, input \in Inputs \cup TrieInputs : NoPartialRoute(root, input)

\* The same for the routers no node of which allows a remainder
C24_FailedRegistrationWithoutRemainder ==
    router.remainder = {} => C24_FailedRegistrationInstallsNothing

\* C24 witness: the root allows a remainder and has no dynamic child, and the
\* registration of a variable field followed by a field without option fails
\* after it created the dynamic child
C24_Witness ==
    LET res == routeHandler(router, "get", <<FId, FBar>>)
    IN  /\ RootNode("get") \in router.remainder
        /\ DynChild(RootNode("get")) \notin router.nodes
        /\ res.err = <<"no option for field", "Bar", "Fixed">>
        /\ DynChild(RootNode("get")) \in res.router.nodes

----------------------------------------------------------------------------
(* Two routes at one node *)

\* The route registered last for the pattern of node n
LatestAt(r, n) == CHOOSE k \in RoutesAt(r, n) : \A j \in RoutesAt(r, n) : j <= k

\* C25: registering a route at a node that has a handler already reports no
\* error of its own (it fails only as its fields fail) and binds the new
\* handler there; the handler of every node is that of the route registered
\* last for it, the lookup of every instance of the pattern that no fixed
\* segment shadows returns it, and the request it starts runs the field
\* modifiers compiled for that route.
C25_LaterRegistrationWins ==
    /\ \A root \in Roots, input \in Inputs :
            LET res == routeHandler(router, root, input)
                compiled == routeFields(router, Cursor(root), input, 1)
            IN  /\ res.err = compiled.err
                /\ res.err = Nil =>
                        /\ HandlerAt(res.router, compiled.c.node) = Len(router.routes) + 1
                        /\ Last(res.router.routes).fields = compiled.fields
    /\ \A k \in DOMAIN router.routes :
            LET n == router.routes[k].node
                latest == LatestAt(router, n)
            IN  /\ HandlerAt(router, n) = latest
                /\ \A m \in MethodsOf(n.root), p \in Instances(n.steps) :
                        ~Shadowed(router, n, p) =>
                            /\ Handler(router, Node(m), p).handler = latest
                            /\ serve(router, m, URLOf(TargetOf(p))).req.matched
                                    = latest

\* C25 witness: two routes with different field modifiers are registered at
\* the GET root
C25_Witness ==
    /\ Len(router.routes) = 2
    /\ router.routes[1].node = RootNode("get")
    /\ router.routes[2].node = RootNode("get")
    /\ router.routes[1].fields # router.routes[2].fields
    /\ HandlerAt(router, RootNode("get")) = 2
    /\ nerr = Nil

----------------------------------------------------------------------------
(* Cleanups that panic *)

\* The cleanups that panicked
CleanupPanics == {k \in Where("close") : log[k].out = "panic"}

\* When the request has ended, the panic of the cleanup called at k did not
\* leave handleRoute, it is the error of the request when no error was raised
\* before it, and each of the cleanups as, acquired before the one that
\* panicked, has run after it
PanicKept(k, as) ==
    /\ ~bind.panicking
    /\ bind.mErr # Nil
    /\ k = FirstRaised => bind.mErr = PanicErr
    /\ \A a \in as : \E c \in ClosesOf(a) : c > k

\* The cleanups acquired before the one called at k: all of them, and those
\* of the earlier fields none of whose own cleanups panicked
AcquiredBefore(k) ==
    {a \in Acquired : log[a].f < log[k].f \/ (log[a].f = log[k].f /\ log[a].s < log[k].s)}
AcquiredInFieldsBefore(k) ==
    {a \in Acquired : /\ log[a].f < log[k].f
                      /\ \A j \in CleanupPanics : log[j].f # log[a].f}

\* C26 (as stated): the panic of a cleanup becomes the error of the request
\* when none is set, does not leave handleRoute, and keeps no cleanup acquired
\* earlier from running, be it of an earlier field or of an earlier sub-option
\* of the same field.
C26_CleanupPanicKeepsCleanups ==
    Finished => \A k \in CleanupPanics : PanicKept(k, AcquiredBefore(k))

\* The same for the cleanups of earlier fields, when no cleanup of theirs
\* panics in turn
C26_CleanupPanicKeepsEarlierFields ==
    Finished => \A k \in CleanupPanics : PanicKept(k, AcquiredInFieldsBefore(k))

\* C26 witness: the second cleanup of a field panicked, the request has ended
\* and the first cleanup of the field has not run
C26_Witness ==
    /\ Finished
    /\ \E k \in CleanupPanics, a \in Acquired :
            /\ log[a].f = log[k].f
            /\ log[a].s < log[k].s
            /\ ClosesOf(a) = {}

----------------------------------------------------------------------------
(* The error handler and the encoder *)

\* The calls of the encoder that wrote the response
Encoded == {k \in Where("encode") : log[k].out = "ok"}

\* C27 (as stated): for a matched request the error handler is called at most
\* once and never after the encoder wrote the response: the response holds the
\* encoded result or the error handler's output, never both.
C27_EncodedOrError ==
    Matched =>
        /\ Cardinality(Where("HandleErr")) <= 1
        /\ Encoded = {} \/ Where("HandleErr") = {}
        /\ Len(resp.body) <= 1

\* C27 (amended): for a matched request the error handler is called at most
\* once, as the last call of the request and exactly when the request ends
\* with an error; it is called after the encoder wrote the response exactly
\* when a cleanup returned an error or panicked after the encoder succeeded,
\* and the response then holds the encoded result followed by the error
\* handler's output.
C27_ErrorAfterEncodedOnlyFromCleanup ==
    Matched =>
        /\ Cardinality(Where("HandleErr")) <= 1
        /\ \A h \in Where("HandleErr") : h = Len(log) /\ pc = "done"
        /\ pc = "done" => (Where("HandleErr") # {} <=> bind.mErr # Nil)
        /\ Len(resp.body) = Cardinality(Encoded) + Cardinality(Where("HandleErr"))
        /\ \A e \in Encoded : resp.body[1] = <<"encoded">> /\ resp.status = 200
        /\ (pc = "done" /\ Encoded # {}) =>
                (Where("HandleErr") # {} <=>
                    \E c \in Where("close") :
                        /\ \A e \in Encoded : e < c
                        /\ log[c].out \in {"err", "panic"})

\* C27 witness: a request has ended whose encoder wrote the response and whose
\* cleanup then returned an error; the error handler was called and the
\* response holds both
C27_Witness ==
    /\ Finished
    /\ Encoded # {}
    /\ \E c \in Where("close") : log[c].out = "err"
    /\ Where("HandleErr") # {}
    /\ Len(resp.body) = 2
    /\ resp.status = 200

----------------------------------------------------------------------------
(* Found handlers *)

\* Every lookup that reports found returns a handler that is set
FoundIsSet ==
    \A method \in Methods, p \in TriePaths :
        Handler(router, Node(method), p).ok
            => Handler(router, Node(method), p).handler # NoHandler

\* C28 (as stated): in every trie that registrations and remainder marks
\* build, a lookup that reports found returns a handler that is set, for every
\* method and path.
C28_FoundHandlerIsSet == FoundIsSet

\* The same for the tries in which every node that allows a remainder has a
\* handler
C28_FoundHandlerIsSetWhenMarkedNodesHaveHandlers ==
    (\A n \in router.remainder : HandlerAt(router, n) # NoHandler) => FoundIsSet

\* C28 witness: a route is registered at /foo, the GET root allows a
\* remainder and has no handler, and the lookup of /x reports found with no
\* handler
C28_Witness ==
    /\ HandlerAt(router, StaticChild(RootNode("get"), <<"foo">>)) # NoHandler
    /\ RootNode("get") \in router.remainder
    /\ HandlerAt(router, RootNode("get")) = NoHandler
    /\ Handler(router, Node("GET"), << <<"x">> >>) = [handler |-> NoHandler, ok |-> TRUE]

----------------------------------------------------------------------------
(* The path cursor of a matched request *)

\* The sub-modifiers of the matched route that pop the path, in order, and
\* the calls of them so far
PopMods ==
    SelectSeq(SubModifiers(Fields, 1, 1), LAMBDA m : Pops(Fields[m[1]][m[2]]))
Popped == SelectSeq(log, LAMBDA e : e.ev = "mod" /\ Pops(Fields[e.f][e.s]))

\* The calls so far popped the first segments of the path, one each and in
\* order, none of them from an empty cursor, and the cursor holds the rest
PopsInOrder ==
    /\ Len(Popped) <= Len(PopMods)
    /\ Len(Popped) <= Len(req.path)
    /\ \A k \in DOMAIN Popped :
            /\ Popped[k].out # "panic"
            /\ <<Popped[k].f, Popped[k].s>> = PopMods[k]
            /\ Popped[k].arg = req.path[k]
    /\ bind.pathTail = SubSeq(req.path, Len(Popped) + 1, Len(req.path))

\* C29 (as stated): a matched request has as many path segments as its route
\* has modifiers that pop the path; each of them pops one segment, the k-th
\* of them the k-th segment, which for a variable modifier is the segment at
\* its slot in the pattern; no pop finds the cursor empty, and the cursor is
\* empty once the last of them has run.
C29_SegmentsMatchModifiers ==
    Matched =>
        /\ Len(req.path) = Len(PopMods)
        /\ Len(PopMods) = Len(Route.node.steps)
        /\ PopsInOrder

\* C29 (amended): a matched request has at least as many path segments as its
\* route has modifiers that pop the path, and more only when the route's node
\* allows a remainder; there are as many such modifiers as the pattern has
\* segments, each pops one segment, the k-th of them the k-th segment of the
\* path, no pop finds the cursor empty, and once the last of them has run the
\* cursor holds the segments beyond the pattern, none unless the request
\* matched by the remainder rule.
C29_SegmentsCoverModifiers ==
    Matched =>
        /\ Len(req.path) >= Len(PopMods)
        /\ Len(req.path) > Len(PopMods) => Route.node \in router.remainder
        /\ Len(PopMods) = Len(Route.node.steps)
        /\ \A k \in DOMAIN PopMods :
                (Route.node.steps[k].kind = "d")
                    <=> Fields[PopMods[k][1]][PopMods[k][2]] = "PathID"
        /\ PopsInOrder

\* C29 witness: a request for /foo/x/foo matched the route /foo/:id by the
\* remainder rule, both modifiers of the route have run and the cursor holds
\* the third segment
C29_Witness ==
    /\ Matched
    /\ Route.input = <<FFoo, FId>>
    /\ Len(req.path) = 3
    /\ Len(Popped) = 2
    /\ bind.pathTail = << <<"foo">> >>

----------------------------------------------------------------------------
(* Routes and the options after them *)

\* A step registered a route
Registered == Len(router'.routes) = Len(router.routes) + 1

\* A registered route is compiled against the router the step started with:
\* its modifiers are those of the field options bound then, and its chain the
\* middleware added by then
CompiledAsOf ==
    LET route == Last(router'.routes)
        compiled == routeFields(router, Cursor(route.root), route.input, 1)
    IN  /\ compiled.err = Nil
        /\ route.fields = compiled.fields
        /\ route.node = compiled.c.node
        /\ route.middleware = router.middleware

\* A step that registers no route leaves the routes as they are, and one
\* that registers a route the routes before it
RoutesKept ==
    /\ Len(router'.routes) >= Len(router.routes)
    /\ \A k \in DOMAIN router.routes : router'.routes[k] = router.routes[k]

\* A step that fails New fails on a route, with the error its fields have
\* against the router the step started with, and registers nothing
FailsAsOf ==
    (pc = "setup" /\ pc' = "failed") =>
        /\ router'.routes = router.routes
        /\ \E input \in Inputs, root \in Roots :
                nerr' = routeFields(router, Cursor(root), input, 1).err

\* The registration of a route whose first field has no option bound fails
\* with the unbound-field error and registers nothing
UnboundFieldFails ==
    \A root \in Roots, input \in Inputs :
        (IsExported(input[1]) /\ ~routeOption(router, input[1]).ok) =>
            LET res == routeHandler(router, root, input)
            IN  /\ res.err = <<"no option for field", input[1].name, input[1].type>>
                /\ res.router.routes = router.routes

\* C30: a route is compiled when its option runs, against the field options
\* and the middleware the router has at that moment; a route with a field no
\* option is bound for yet fails New with an unbound-field error; and no later
\* option, be it ByName, ByType or Middleware, changes a registered route, its
\* modifiers or its chain.
C30_CompiledWhenRegistered ==
    /\ []UnboundFieldFails
    /\ [][/\ RoutesKept
          /\ Registered => CompiledAsOf
          /\ FailsAsOf]_vars

\* C30 witness: a route of the field Foo was registered with the option of
\* its type and no middleware; since then an option was bound to the name Foo
\* and a middleware added, and the route is as it was
C30_Witness ==
    /\ Len(router.routes) >= 1
    /\ router.routes[1].input = <<FFoo>>
    /\ router.routes[1].fields = <<(<<"PathByName">>)>>
    /\ router.routes[1].middleware = <<>>
    /\ "Foo" \in DOMAIN router.nameRouteOptions
    /\ router.middleware # <<>>
    /\ pc = "done"

----------------------------------------------------------------------------
(* The segments of a path, and the paths that reach the root's handler *)

\* The slashes of a string
Slashes(s) == Cardinality({k \in 1..Len(s) : s[k] = "/"})

\* The string splitPath splits: the raw path when the URL has one, else the
\* path
SplitOf(link) == IF link.RawPath = <<>> THEN link.Path ELSE link.RawPath

\* splitPath gives one segment for each slash of every path it decodes: none
\* for the empty path, one empty segment for /, and an empty last segment for
\* a trailing slash; the request being served has the segments of its URL
OneSegmentPerSlash ==
    /\ \A t \in SplitTargets :
            LET link == URLOf(t)
                sp == splitPath(link)
            IN  sp.err = Nil =>
                    /\ Slashes(SplitOf(link)) = Slashes(t)
                    /\ Len(sp.path) = Slashes(t)
                    /\ (t # <<>> /\ Last(t) = "/") => Last(sp.path) = <<>>
    /\ splitPath(URLOf(<<>>)).path = <<>>
    /\ splitPath(URLOf(<<"/">>)).path = << <<>> >>
    /\ (pc \notin {"setup", "failed"} /\ splitPath(req.url).err = Nil) =>
            /\ req.path = splitPath(req.url).path
            /\ Len(req.path) = Slashes(SplitOf(req.url))

\* The lookup of a request target in the GET trie
LookupOf(t) == Handler(router, Node("GET"), splitPath(URLOf(t)).path)

\* The lookup of t found the handler bound at node n
FoundAt(t, n) ==
    /\ n \in router.nodes \cup {RootNode("get")}
    /\ HandlerAt(router, n) # NoHandler
    /\ LookupOf(t).ok
    /\ LookupOf(t).handler = HandlerAt(router, n)

Decodes(t) == splitPath(URLOf(t)).err = Nil

\* The handler bound at the GET root is found by the empty path only
RootByEmptyPathOnly ==
    \A t \in SplitTargets :
        (Decodes(t) /\ FoundAt(t, RootNode("get"))) => t = <<>>

\* The lookup of t found a handler that is set
Finds(t) == LookupOf(t).ok /\ LookupOf(t).handler # NoHandler

\* The path / finds a handler only at the root's static child for the empty
\* string or at its dynamic child
SlashByChildOnly ==
    Finds(<<"/">>) =>
        \/ FoundAt(<<"/">>, StaticChild(RootNode("get"), <<>>))
        \/ FoundAt(<<"/">>, DynChild(RootNode("get")))

\* The lookup of t ended with the remainder rule at the GET root: the root
\* allows a remainder, the first segment has no static child that matches
\* the rest, and the root has no dynamic child
RemainderAtRoot(t) ==
    LET path == splitPath(URLOf(t)).path
        child == StaticChild(RootNode("get"), Head(path))
    IN  /\ path # <<>>
        /\ RootNode("get") \in router.remainder
        /\ DynChild(RootNode("get")) \notin router.nodes
        /\ child \in router.nodes => ~Handler(router, child, Tail(path)).ok
        /\ LookupOf(t) = [handler |-> HandlerAt(router, RootNode("get")), ok |-> TRUE]

\* C31 (as stated): splitPath drops only the first element of the split, so
\* a path with n slashes has n segments: none for the empty path, one empty
\* segment for /, an empty last segment for a trailing slash; so the handler
\* bound at a method root is found by the empty path only, and / is found
\* only through the root's static child for the empty string or its dynamic
\* child.
C31_RootByEmptyPathOnly ==
    /\ OneSegmentPerSlash
    /\ RootByEmptyPathOnly
    /\ SlashByChildOnly

\* C31 (amended): a path with n slashes that decodes has n segments, as
\* above; the handler bound at a method root is found by the empty path, and
\* by another path only through the remainder rule at the root; / is found
\* only through the root's static child for the empty string, its dynamic
\* child, or the remainder rule at the root.
C31_RootByEmptyPathOrRemainder ==
    /\ OneSegmentPerSlash
    /\ \A t \in SplitTargets :
            (Decodes(t) /\ FoundAt(t, RootNode("get"))) =>
                t = <<>> \/ RemainderAtRoot(t)
    /\ Finds(<<"/">>) =>
            \/ FoundAt(<<"/">>, StaticChild(RootNode("get"), <<>>))
            \/ FoundAt(<<"/">>, DynChild(RootNode("get")))
            \/ RemainderAtRoot(<<"/">>)

\* The same as stated, for the routers in which the root allows no remainder
C31_RootByEmptyPathOnlyWithoutRemainder ==
    RootNode("get") \notin router.remainder => C31_RootByEmptyPathOnly

\* C31 witness: routes are bound at the GET root and at its child for the
\* empty string, the root allows no remainder, and a request for / was
\* served: its path is one empty segment and it matched the route of the
\* child, while the empty path finds the route of the root and /foo finds
\* nothing
C31_Witness ==
    /\ pc = "done"
    /\ req.url = URLOf(<<"/">>)
    /\ req.path = << <<>> >>
    /\ RootNode("get") \notin router.remainder
    /\ HandlerAt(router, RootNode("get")) # NoHandler
    /\ req.matched = HandlerAt(router, StaticChild(RootNode("get"), <<>>))
    /\ req.matched # HandlerAt(router, RootNode("get"))
    /\ FoundAt(<<>>, RootNode("get"))
    /\ ~LookupOf(<<"/", "foo">>).ok

====
